---- MODULE Spec2Model ----
(***************************************************************************)
(* Model of the image-extraction toolchain of familycolor:                 *)
(*   scripts/image_extractor/config.py        (Config, AgeGroup)           *)
(*   scripts/image_extractor/qa_validator.py  (QAValidator, QAReport)      *)
(*   scripts/image_extractor/pipeline.py      (Pipeline.process_page,      *)
(*                                             process_batch)              *)
(*   scripts/image_extractor/cli.py           (cmd_process, cmd_batch)     *)
(*   scripts/image_extractor/manifest_builder.py (ManifestBuilder)         *)
(*   scripts/image_extractor/processors/region_extractor.py                *)
(*   scripts/image_extractor/processors/line_extractor.py                  *)
(*   scripts/extract_regions.py, scripts/regenerate_metadata.py            *)
(*                                                                         *)
(* Region lists.  QAValidator reads only len(regions) and each region's    *)
(* pixel_count.  A region list is kept run-length encoded: a sequence of   *)
(* runs [pixel_count |-> p, n |-> k], each standing for k consecutive      *)
(* RegionMetadata objects whose pixel_count is p.                          *)
(*                                                                         *)
(* Floats.  tiny_percentage and avg_size are Python floats obtained by one *)
(* division of two integers and compared with the literals 0.3, 0.2, 0.25, *)
(* 3000 and 10000.  They are kept as exact fractions [num, den] and        *)
(* compared by cross-multiplication.  IEEE division is correctly rounded   *)
(* and monotone, the literal is the double nearest the decimal, and for    *)
(* denominators below 10^6 two distinct fractions of interest differ by    *)
(* far more than one ulp, so the float comparison and the exact comparison *)
(* agree on every list the model builds.                                   *)
(***************************************************************************)
EXTENDS Integers, Sequences, FiniteSets, TLC

VARIABLES
    regions,        \* the region list under validation (run-length encoded)
    report,         \* the QAReport last returned by validate / auto_classify
    classified,     \* the age group last returned by auto_classify
    disk,           \* output_dir: for each page_id its directory and files
    written,        \* the entries the current process_page call wrote
    calls,          \* number of process_page calls made so far
    call,           \* the arguments (and environment) of the last call
    result,         \* the ProcessingResult the last call returned
    input_dir,      \* the files of the input directory of the batch command
    command,        \* the command line the process was started with
    attempted,      \* the input paths the command passed to process_page
    results,        \* the list process_batch returned
    exit_code,      \* the exit code of the command, None while it runs
    summary,        \* the counts _print_summary printed at the end of a batch
    fillable_mask,  \* the mask given to RegionExtractor.extract
    min_region_area,\* config.min_region_area of that extractor
    label_map,      \* the label map extract returned, or one a caller loaded
    region_list,    \* the RegionMetadata list extract returned
    labels_png,     \* labels.png as save_rgb_label_map wrote it (BGR)
    analysis,       \* what analyze_label_map read back from labels.png
    lines,          \* the line mask given to _create_fillable_mask
    fillable,       \* the fillable mask _create_fillable_mask returned
    refilled,       \* that mask after the exterior removal ran on it again
    processed_dir,  \* the directory of processed pages a manifest is built of
    pages,          \* ManifestBuilder.pages
    categories,     \* ManifestBuilder.categories
    manifest,       \* the dictionary build() returned
    last_call       \* the last call on the builder and what it raised

qa_vars == <<regions, report, classified>>

pipeline_vars == <<disk, written, calls, call, result>>

cli_vars == <<input_dir, command, attempted, results, exit_code, summary>>

region_vars == <<fillable_mask, min_region_area, label_map, region_list,
                 labels_png, analysis>>

mask_vars == <<lines, fillable, refilled>>

manifest_vars == <<processed_dir, pages, categories, manifest, last_call>>

(***************************************************************************)
(* Bounds of the model.                                                    *)
(***************************************************************************)
MaxRuns == 2

\* process_page calls in one behaviour
MaxCalls == 2

\* the number of pages callers add to one builder
MaxPages == 2

\* pixel_count values of the regions the model builds: the three
\* min_region_pixels limits, one value below the smallest, and the two
\* avg_size limits of _recommend_age_group.
PixelCounts == {499, 500, 2000, 3000, 5000, 10000}

\* run lengths: the region-count limits 80, 150, 200, 300, 1000 (one more
\* region is a second run of 1), and 1, 3, 4, 7 for lists in which exactly
\* 20%, 25% and 30% of the regions are tiny.
RunLengths == {1, 3, 4, 7, 80, 150, 200, 300, 1000}

(***************************************************************************)
(* config.py                                                               *)
(***************************************************************************)
KIDS == "kids"
FAMILY == "family"
ADULT == "adult"
AgeGroup == {KIDS, FAMILY, ADULT}

max_regions == [kids |-> 150, family |-> 300, adult |-> 1000]

min_region_pixels == [kids |-> 5000, family |-> 2000, adult |-> 500]

\* tiny_region_threshold: float = 0.3
tiny_region_threshold == [num |-> 3, den |-> 10]

get_max_regions(age_group) ==
    IF age_group \in DOMAIN max_regions THEN max_regions[age_group] ELSE 300

get_min_region_pixels(age_group) ==
    IF age_group \in DOMAIN min_region_pixels
    THEN min_region_pixels[age_group] ELSE 2000

(***************************************************************************)
(* Run-length encoded region lists.                                        *)
(***************************************************************************)
Run == [pixel_count : PixelCounts, n : RunLengths]

RECURSIVE len(_)
\* len(regions)
len(rs) ==
    IF rs = <<>> THEN 0 ELSE Head(rs).n + len(Tail(rs))

RECURSIVE count_below(_, _)
\* len([r for r in regions if r.pixel_count < min_pixels])
count_below(rs, min_pixels) ==
    IF rs = <<>> THEN 0
    ELSE (IF Head(rs).pixel_count < min_pixels THEN Head(rs).n ELSE 0)
         + count_below(Tail(rs), min_pixels)

RECURSIVE sum_pixel_count(_)
\* sum(r.pixel_count for r in regions)
sum_pixel_count(rs) ==
    IF rs = <<>> THEN 0
    ELSE Head(rs).pixel_count * Head(rs).n + sum_pixel_count(Tail(rs))

(***************************************************************************)
(* Exact fractions standing for the floats of qa_validator.py.             *)
(***************************************************************************)
Frac(a, b) == [num |-> a, den |-> b]
Zero == Frac(0, 1)
FracGT(x, y) == x.num * y.den > y.num * x.den
FracLE(x, y) == x.num * y.den <= y.num * x.den
FracGE(x, y) == x.num * y.den >= y.num * x.den

(***************************************************************************)
(* qa_validator.py                                                         *)
(***************************************************************************)
PASS == "pass"
WARN == "warn"
FAIL == "fail"
QAResult == {PASS, WARN, FAIL}

None == "None"

QAIssue(severity, code) == [severity |-> severity, code |-> code]

\* _recommend_age_group with the second and third rule exchanged
recommend_age_group_swapped(region_count, tiny_percentage, rs) ==
    LET avg_size == IF len(rs) > 0
                    THEN Frac(sum_pixel_count(rs), len(rs))
                    ELSE Zero
    IN  IF region_count <= 80 /\ FracGE(avg_size, Frac(10000, 1))
        THEN KIDS
        ELSE IF region_count <= get_max_regions(KIDS)
                /\ FracLE(tiny_percentage, Frac(2, 10))
        THEN KIDS
        ELSE IF region_count <= 200 /\ FracGE(avg_size, Frac(3000, 1))
        THEN FAMILY
        ELSE IF region_count <= get_max_regions(FAMILY)
                /\ FracLE(tiny_percentage, Frac(25, 100))
        THEN FAMILY
        ELSE ADULT

\* the rule list with rules 1 and 2 deciding by the average alone
recommend_age_group_by_average(region_count, tiny_percentage, rs) ==
    LET avg_size == IF len(rs) > 0
                    THEN Frac(sum_pixel_count(rs), len(rs))
                    ELSE Zero
    IN  IF FracGE(avg_size, Frac(10000, 1))
        THEN KIDS
        ELSE IF FracGE(avg_size, Frac(3000, 1))
        THEN FAMILY
        ELSE IF region_count <= get_max_regions(KIDS)
                /\ FracLE(tiny_percentage, Frac(2, 10))
        THEN KIDS
        ELSE IF region_count <= get_max_regions(FAMILY)
                /\ FracLE(tiny_percentage, Frac(25, 100))
        THEN FAMILY
        ELSE ADULT

\* QAValidator._recommend_age_group
recommend_age_group(region_count, tiny_percentage, rs) ==
    LET avg_size == IF len(rs) > 0
                    THEN Frac(sum_pixel_count(rs), len(rs))
                    ELSE Zero
    IN  IF region_count <= 80 /\ FracGE(avg_size, Frac(10000, 1))
        THEN KIDS
        ELSE IF region_count <= 200 /\ FracGE(avg_size, Frac(3000, 1))
        THEN FAMILY
        ELSE IF region_count <= get_max_regions(KIDS)
                /\ FracLE(tiny_percentage, Frac(2, 10))
        THEN KIDS
        ELSE IF region_count <= get_max_regions(FAMILY)
                /\ FracLE(tiny_percentage, Frac(25, 100))
        THEN FAMILY
        ELSE ADULT

\* check 1 with the boundary taken as exclusive
check_region_count_inclusive(issues, region_count, max) ==
    IF region_count >= max
    THEN Append(issues, QAIssue(FAIL, "REGION_COUNT_EXCEEDED"))
    ELSE issues

\* Check 1 of validate: the issues after the region-count check
check_region_count(issues, region_count, max) ==
    IF region_count > max
    THEN Append(issues, QAIssue(FAIL, "REGION_COUNT_EXCEEDED"))
    ELSE issues

\* check 2 failing at the threshold itself
check_tiny_regions_at_threshold(issues, tiny_percentage) ==
    IF FracGE(tiny_percentage, tiny_region_threshold)
    THEN Append(issues, QAIssue(FAIL, "TOO_MANY_TINY_REGIONS"))
    ELSE issues

\* Check 2 of validate: the issues after the tiny-region check
check_tiny_regions(issues, tiny_percentage) ==
    IF FracGT(tiny_percentage, tiny_region_threshold)
    THEN Append(issues, QAIssue(FAIL, "TOO_MANY_TINY_REGIONS"))
    ELSE issues

\* the mismatch reported with FAIL severity
check_age_group_fail(issues, recommended, target_age_group) ==
    IF recommended # target_age_group
    THEN Append(issues, QAIssue(FAIL, "AGE_GROUP_MISMATCH"))
    ELSE issues

\* the warning put in front of the issues found before it
check_age_group_prepending(issues, recommended, target_age_group) ==
    IF recommended # target_age_group
    THEN <<QAIssue(WARN, "AGE_GROUP_MISMATCH")>> \o issues
    ELSE issues

\* the warning validate adds when the recommendation differs from the target
check_age_group(issues, recommended, target_age_group) ==
    IF recommended # target_age_group
    THEN Append(issues, QAIssue(WARN, "AGE_GROUP_MISMATCH"))
    ELSE issues

\* the overall result with the warning tested before the failure
overall_result_warn_first(issues) ==
    LET has_fail == \E i \in DOMAIN issues : issues[i].severity = FAIL
        has_warn == \E i \in DOMAIN issues : issues[i].severity = WARN
    IN  IF has_warn THEN WARN ELSE IF has_fail THEN FAIL ELSE PASS

\* the overall result validate derives from the issues
overall_result(issues) ==
    LET has_fail == \E i \in DOMAIN issues : issues[i].severity = FAIL
        has_warn == \E i \in DOMAIN issues : issues[i].severity = WARN
    IN  IF has_fail THEN FAIL ELSE IF has_warn THEN WARN ELSE PASS

\* validate recommending from the tiny percentage under FAMILY's minimum
validate_recommending_by_family(rs, target_age_group) ==
    LET region_count == len(rs)
        max == get_max_regions(target_age_group)
        min_pixels == get_min_region_pixels(target_age_group)
        tiny_count == count_below(rs, min_pixels)
        tiny_percentage == IF region_count > 0
                           THEN Frac(tiny_count, region_count)
                           ELSE Zero
        family_percentage ==
            IF region_count > 0
            THEN Frac(count_below(rs, get_min_region_pixels(FAMILY)),
                      region_count)
            ELSE Zero
        issues1 == check_region_count(<<>>, region_count, max)
        issues2 == check_tiny_regions(issues1, tiny_percentage)
        recommended == recommend_age_group(region_count, family_percentage, rs)
        issues == check_age_group(issues2, recommended, target_age_group)
    IN  [result |-> overall_result(issues),
         issues |-> issues,
         region_count |-> region_count,
         tiny_region_count |-> tiny_count,
         tiny_region_percentage |-> tiny_percentage,
         age_group |-> target_age_group,
         recommended_age_group |->
             IF recommended # target_age_group THEN recommended ELSE None]

\* QAValidator.validate
validate(rs, target_age_group) ==
    LET region_count == len(rs)
        max == get_max_regions(target_age_group)
        min_pixels == get_min_region_pixels(target_age_group)
        tiny_count == count_below(rs, min_pixels)
        tiny_percentage == IF region_count > 0
                           THEN Frac(tiny_count, region_count)
                           ELSE Zero
        issues1 == check_region_count(<<>>, region_count, max)
        issues2 == check_tiny_regions(issues1, tiny_percentage)
        recommended == recommend_age_group(region_count, tiny_percentage, rs)
        issues == check_age_group(issues2, recommended, target_age_group)
    IN  [result |-> overall_result(issues),
         issues |-> issues,
         region_count |-> region_count,
         tiny_region_count |-> tiny_count,
         tiny_region_percentage |-> tiny_percentage,
         age_group |-> target_age_group,
         recommended_age_group |->
             IF recommended # target_age_group THEN recommended ELSE None]

\* the first pass of auto_classify: the recommendation it validates against
auto_recommended(rs) ==
    LET region_count == len(rs)
        tiny_count == count_below(rs, get_min_region_pixels(FAMILY))
        tiny_pct == IF region_count > 0
                    THEN Frac(tiny_count, region_count)
                    ELSE Zero
    IN  recommend_age_group(region_count, tiny_pct, rs)

\* auto_classify validating against FAMILY, whose threshold the first pass used
auto_classify_family(rs) ==
    LET recommended == auto_recommended(rs)
    IN  <<recommended, validate(rs, FAMILY)>>

\* QAValidator.auto_classify: the pair (recommended, report)
auto_classify(rs) ==
    LET recommended == auto_recommended(rs)
    IN  <<recommended, validate(rs, recommended)>>

(***************************************************************************)
(* A session of a QAValidator: a caller builds a region list, then         *)
(* validates it (against a target, or by auto_classify), as the scripts    *)
(* test_qa_validator*.py do.                                               *)
(***************************************************************************)
NoReport == [result |-> None]

InitQA ==
    /\ regions = <<>>
    /\ report = NoReport
    /\ classified = None

\* the caller appends n regions of pixel_count p to the list it is building
AddRegions ==
    /\ report = NoReport
    /\ Len(regions) < MaxRuns
    /\ \E p \in PixelCounts, n \in RunLengths :
          regions' = Append(regions, [pixel_count |-> p, n |-> n])
    /\ UNCHANGED <<report, classified>>
    /\ UNCHANGED <<pipeline_vars, cli_vars, region_vars, mask_vars,
                 manifest_vars>>

\* a validate that filters the tiny regions out of the caller's list
Validate_filtering ==
    /\ \E g \in AgeGroup :
          /\ report' = validate(regions, g)
          /\ regions' = SelectSeq(regions,
                LAMBDA r : r.pixel_count >= get_min_region_pixels(g))
    /\ classified' = None
    /\ UNCHANGED <<pipeline_vars, cli_vars, region_vars, mask_vars,
                 manifest_vars>>

\* report = validator.validate(regions, target_age_group)
Validate ==
    /\ \E g \in AgeGroup : report' = validate(regions, g)
    /\ classified' = None
    /\ UNCHANGED regions
    /\ UNCHANGED <<pipeline_vars, cli_vars, region_vars, mask_vars,
                 manifest_vars>>

\* recommended, report = validator.auto_classify(regions)
AutoClassify ==
    /\ classified' = auto_classify(regions)[1]
    /\ report' = auto_classify(regions)[2]
    /\ UNCHANGED regions
    /\ UNCHANGED <<pipeline_vars, cli_vars, region_vars, mask_vars,
                 manifest_vars>>

(***************************************************************************)
(* pipeline.py: Pipeline.process_page.                                     *)
(*                                                                         *)
(* The output directory holds, for each page_id, the page directory and    *)
(* its entries: present or absent, metadata.json with the fields the       *)
(* pipeline adds to it.  Beside the directory, each call keeps the log of  *)
(* the entries it created or wrote (`written`), so that what one call did  *)
(* to the directory can be told from what it found there.                  *)
(*                                                                         *)
(* process_page is synchronous and runs to its return; it is one action.   *)
(* The environment of a call is the input `fault`: which operation of the  *)
(* call, if any, fails.  cv2.imread returns None for an unreadable input   *)
(* (line_extractor.py raises ValueError); mkdir and open raise OSError;    *)
(* cv2.imwrite returns False when it cannot write, and the three callers   *)
(* ignore its value.                                                       *)
(***************************************************************************)
PageIds == { <<"c", "a", "r">> }

Faults == {"none", "mkdir", "unreadable_input", "write_image",
           "write_labels", "write_thumb", "write_metadata", "debug"}

\* config.debug_output: bool = True
debug_output == TRUE

\* the region lists RegionExtractor.extract returns for the pages processed;
\* extract drops every component below min_region_area = 500
PageRegionLists ==
    { <<>>,
      <<[pixel_count |-> 10000, n |-> 80]>>,
      <<[pixel_count |-> 10000, n |-> 150], [pixel_count |-> 10000, n |-> 1]>>,
      <<[pixel_count |-> 2000, n |-> 7], [pixel_count |-> 500, n |-> 3]>>,
      <<[pixel_count |-> 2000, n |-> 4]>>,
      <<[pixel_count |-> 500, n |-> 1000], [pixel_count |-> 500, n |-> 1]>> }

NoMetadata == [qaResult |-> None]

EmptyPage ==
    [dir |-> FALSE, image |-> FALSE, labels |-> FALSE, thumb |-> FALSE,
     metadata |-> NoMetadata, debug |-> FALSE]

\* a file system: the directory and the log of the current call
FS(d, w) == [disk |-> d, written |-> w]

\* page_output_dir.mkdir(parents=True, exist_ok=True)
mkdir(fs, page_id) ==
    IF fs.disk[page_id].dir THEN fs
    ELSE FS([fs.disk EXCEPT ![page_id].dir = TRUE],
            fs.written \cup {"dir"})

\* cv2.imwrite(path, img) for image.png, labels.png and thumb.png
imwrite(fs, page_id, entry, fails) ==
    IF fails THEN fs
    ELSE FS(CASE entry = "image.png" ->
                    [fs.disk EXCEPT ![page_id].image = TRUE]
              [] entry = "labels.png" ->
                    [fs.disk EXCEPT ![page_id].labels = TRUE]
              [] entry = "thumb.png" ->
                    [fs.disk EXCEPT ![page_id].thumb = TRUE],
            fs.written \cup {entry})

\* build_metadata plus the qaResult and ageGroup fields process_page adds
build_metadata(page_id, rs, qa_report, age_group) ==
    [imageName |-> page_id,
     totalRegions |-> len(rs),
     qaResult |-> qa_report.result,
     ageGroup |-> age_group]

\* json.dump(metadata, open(page_output_dir / "metadata.json", "w"))
write_metadata(fs, page_id, metadata) ==
    FS([fs.disk EXCEPT ![page_id].metadata =
            [qaResult |-> metadata.qaResult,
             ageGroup |-> metadata.ageGroup,
             totalRegions |-> metadata.totalRegions]],
       fs.written \cup {"metadata.json"})

\* the debug outputs, written under page_output_dir/_debug
write_debug(fs, page_id) ==
    IF debug_output
    THEN FS([fs.disk EXCEPT ![page_id].debug = TRUE],
            fs.written \cup {"_debug"})
    ELSE fs

ProcessingResult(page_id, success, qa_report, metadata, error, output_dir) ==
    [page_id |-> page_id, success |-> success, qa_report |-> qa_report,
     metadata |-> metadata, error |-> error, output_dir |-> output_dir]

\* the except clause of process_page; qa_report keeps its default, None,
\* which is NoReport, the report no validation returned
error_result(page_id, message) ==
    ProcessingResult(page_id, FALSE, NoReport, None, message, None)

\* step 3 of process_page: <<age_group, qa_report>>
qa_step(rs, age_group) ==
    IF age_group = None
    THEN auto_classify(rs)
    ELSE <<age_group, validate(rs, age_group)>>

\* the abort test skipping the output whatever skip_qa_fail says
should_abort_ignoring_skip(qa_report, skip_qa_fail) ==
    qa_report.result = FAIL

\* "Check if we should abort"
should_abort(qa_report, skip_qa_fail) ==
    qa_report.result = FAIL /\ ~skip_qa_fail

\* step 4 of process_page, "Save outputs", up to the return: [fs, result]
save_outputs(fs, page_id, rs, qa, fault) ==
    LET fs2 == imwrite(fs, page_id, "image.png", fault = "write_image")
        fs3 == imwrite(fs2, page_id, "labels.png", fault = "write_labels")
        fs4 == imwrite(fs3, page_id, "thumb.png", fault = "write_thumb")
        metadata == build_metadata(page_id, rs, qa[2], qa[1])
        fs5 == write_metadata(fs4, page_id, metadata)
    IN  IF fault = "write_metadata"
        THEN [fs |-> fs4, result |-> error_result(page_id, "OSError")]
        ELSE IF debug_output /\ fault = "debug"
        THEN [fs |-> fs5, result |-> error_result(page_id, "OSError")]
        ELSE [fs |-> write_debug(fs5, page_id),
              result |-> ProcessingResult(page_id, TRUE, qa[2], metadata,
                                          None, page_id)]

\* Pipeline.process_page: [fs, result, regions, qa]
\* qa is <<age_group, qa_report>> once step 3 has run
process_page(d, page_id, age_group, skip_qa_fail, rs, fault) ==
    LET fs0 == FS(d, {})
        fs1 == mkdir(fs0, page_id)
        qa == qa_step(rs, age_group)
        saved == save_outputs(fs1, page_id, rs, qa, fault)
    IN  IF fault = "mkdir"
        THEN [fs |-> fs0, result |-> error_result(page_id, "OSError"),
              regions |-> <<>>, qa |-> <<None, NoReport>>]
        ELSE IF fault = "unreadable_input"
        THEN [fs |-> fs1,
              result |-> error_result(page_id, "Could not read image"),
              regions |-> <<>>, qa |-> <<None, NoReport>>]
        ELSE IF should_abort(qa[2], skip_qa_fail)
        THEN [fs |-> fs1,
              result |-> ProcessingResult(page_id, FALSE, qa[2], None,
                                          "QA validation failed", None),
              regions |-> rs, qa |-> qa]
        ELSE [fs |-> saved.fs, result |-> saved.result,
              regions |-> rs, qa |-> qa]

NoCall == [page_id |-> None]
NoResult == [page_id |-> None]

InitPipeline ==
    /\ disk = [p \in PageIds |-> EmptyPage]
    /\ written = {}
    /\ calls = 0
    /\ call = NoCall
    /\ result = NoResult

\* result = pipeline.process_page(input_path, page_id, output_dir,
\*                                age_group, skip_qa_fail)
ProcessPage ==
    /\ call = NoCall
    /\ calls < MaxCalls
    /\ \E page_id \in PageIds, age_group \in AgeGroup \cup {None},
          skip_qa_fail \in BOOLEAN, rs \in PageRegionLists, fault \in Faults :
          LET out == process_page(disk, page_id, age_group, skip_qa_fail,
                                  rs, fault)
          IN  /\ disk' = out.fs.disk
              /\ written' = out.fs.written
              /\ result' = out.result
              /\ regions' = out.regions
              /\ report' = out.qa[2]
              /\ classified' = IF age_group = None THEN out.qa[1] ELSE None
              /\ call' = [page_id |-> page_id, age_group |-> age_group,
                          skip_qa_fail |-> skip_qa_fail, fault |-> fault]
    /\ calls' = calls + 1
    /\ UNCHANGED <<cli_vars, region_vars, mask_vars,
                 manifest_vars>>

\* the caller has taken the result; the locals of the call are gone
EndCall ==
    /\ call # NoCall
    /\ call' = NoCall
    /\ result' = NoResult
    /\ regions' = <<>>
    /\ report' = NoReport
    /\ classified' = None
    /\ written' = {}
    /\ UNCHANGED <<disk, calls>>
    /\ UNCHANGED <<cli_vars, region_vars, mask_vars,
                 manifest_vars>>

(***************************************************************************)
(* cli.py (cmd_process, cmd_batch) and pipeline.py (process_batch).        *)
(*                                                                         *)
(* File names are sequences of characters, a path of the input directory   *)
(* is its name split as pathlib does: [stem, suffix].  Paths are ordered   *)
(* as pathlib orders them on POSIX: by code point, name by name.           *)
(*                                                                         *)
(* One run of the command-line program executes one command and exits.     *)
(* The environment of a command is, for each input file, the region list   *)
(* extraction finds in it and the operation of its process_page call that  *)
(* fails, if any.                                                          *)
(***************************************************************************)
Path(stem, suffix) == [stem |-> stem, suffix |-> suffix]

\* path.name
name(path) == path.stem \o path.suffix

\* the entries an input directory may hold
DirEntries ==
    { Path(<<"b">>, <<".", "p", "n", "g">>),
      Path(<<"A", "-", "b">>, <<".", "P", "N", "G">>),
      Path(<<"a", " ", "-", "b">>, <<".", "j", "p", "e", "g">>),
      Path(<<"a", "_", "l", "a", "b", "e", "l", "s">>, <<".", "p", "n", "g">>),
      Path(<<"c", "_", "t", "h", "u", "m", "b">>, <<".", "j", "p", "g">>),
      Path(<<"d">>, <<".", "t", "x", "t">>) }

\* ord(c) of the characters of DirEntries and of the page ids
ord ==
    [c \in {" ", "-", ".", "A", "E", "G", "J", "N", "P", "_", "a", "b", "c",
            "d", "e", "g", "h", "j", "l", "m", "n", "p", "r", "s", "t", "u",
            "x"}
     |->
        CASE c = " " -> 32 [] c = "-" -> 45 [] c = "." -> 46
          [] c = "A" -> 65 [] c = "E" -> 69 [] c = "G" -> 71 [] c = "J" -> 74
          [] c = "N" -> 78 [] c = "P" -> 80
          [] c = "_" -> 95 [] c = "a" -> 97 [] c = "b" -> 98 [] c = "c" -> 99
          [] c = "d" -> 100 [] c = "e" -> 101 [] c = "g" -> 103
          [] c = "h" -> 104 [] c = "j" -> 106 [] c = "l" -> 108
          [] c = "m" -> 109 [] c = "n" -> 110 [] c = "p" -> 112
          [] c = "r" -> 114
          [] c = "s" -> 115 [] c = "t" -> 116 [] c = "u" -> 117
          [] c = "x" -> 120]

\* chr(n): the character of a code point
chr(n) == CHOOSE c \in DOMAIN ord : ord[c] = n

\* str.upper() and str.lower(), character by character
upper(s) ==
    [i \in DOMAIN s |->
        IF ord[s[i]] >= 97 /\ ord[s[i]] <= 122
        THEN chr(ord[s[i]] - 32) ELSE s[i]]

lower(s) ==
    [i \in DOMAIN s |->
        IF ord[s[i]] >= 65 /\ ord[s[i]] <= 90
        THEN chr(ord[s[i]] + 32) ELSE s[i]]

\* sub in s
contains(s, sub) ==
    \E i \in 1..(Len(s) - Len(sub) + 1) :
        SubSeq(s, i, i + Len(sub) - 1) = sub

\* s.endswith(sub)
endswith(s, sub) ==
    /\ Len(s) >= Len(sub)
    /\ SubSeq(s, Len(s) - Len(sub) + 1, Len(s)) = sub

RECURSIVE str_less(_, _)
\* s < t for two strings
str_less(s, t) ==
    IF t = <<>> THEN FALSE
    ELSE IF s = <<>> THEN TRUE
    ELSE IF ord[Head(s)] # ord[Head(t)] THEN ord[Head(s)] < ord[Head(t)]
    ELSE str_less(Tail(s), Tail(t))

RECURSIVE sorted(_)
\* sorted(set(input_files))
sorted(paths) ==
    IF paths = {} THEN <<>>
    ELSE LET first == CHOOSE p \in paths :
                          \A q \in paths \ {p} : str_less(name(p), name(q))
         IN  <<first>> \o sorted(paths \ {first})

\* file_extensions: tuple = (".png", ".jpg", ".jpeg")
file_extensions ==
    << <<".", "p", "n", "g">>, <<".", "j", "p", "g">>,
       <<".", "j", "p", "e", "g">> >>

\* input_dir.glob(f"*{ext}")
glob(dir, ext) == {path \in dir : endswith(name(path), ext)}

\* the files process_batch collects, before sorting
collect_input_files(dir) ==
    UNION { glob(dir, file_extensions[i]) \cup
            glob(dir, upper(file_extensions[i])) :
                i \in DOMAIN file_extensions }

\* "Skip already-processed files"
skipped_by_name(path) ==
    \/ contains(path.stem, <<"_", "l", "a", "b", "e", "l", "s">>)
    \/ contains(path.stem, <<"_", "d", "e", "b", "u", "g">>)
    \/ endswith(path.stem, <<"_", "t", "h", "u", "m", "b">>)

\* str.replace(old, new) for a single character old
replace_char(s, old, new) ==
    [i \in DOMAIN s |-> IF s[i] = old THEN new ELSE s[i]]

RECURSIVE replace_double_underscore(_)
\* stem.replace("__", "_"): one pass, left to right, without overlap
replace_double_underscore(s) ==
    IF Len(s) < 2 THEN s
    ELSE IF s[1] = "_" /\ s[2] = "_"
    THEN <<"_">> \o replace_double_underscore(SubSeq(s, 3, Len(s)))
    ELSE <<s[1]>> \o replace_double_underscore(Tail(s))

RECURSIVE remove_duplicate_underscores(_)
\* while "__" in stem: stem = stem.replace("__", "_")
remove_duplicate_underscores(s) ==
    IF contains(s, <<"_", "_">>)
    THEN remove_duplicate_underscores(replace_double_underscore(s))
    ELSE s

\* Pipeline._generate_page_id
generate_page_id(input_path) ==
    remove_duplicate_underscores(
        replace_char(replace_char(lower(input_path.stem), " ", "_"),
                     "-", "_"))

\* the page directories a command may create under its output directory
CliPageIds ==
    {generate_page_id(path) : path \in DirEntries}
        \cup {path.stem : path \in DirEntries}

\* the region lists extraction finds in the input files: one that passes
\* QA as KIDS and one that auto_classify takes for KIDS and validate fails
CliRegionLists ==
    { <<[pixel_count |-> 10000, n |-> 80]>>,
      <<[pixel_count |-> 2000, n |-> 4]>> }

CliFaults == {"none", "unreadable_input", "write_image", "write_metadata"}

CliAgeGroups == {None, KIDS}

RECURSIVE process_files(_, _, _, _, _)
\* the loop of process_batch over input_files: [disk, results, attempted]
process_files(d, input_files, age_group, skip_qa_fail, env) ==
    IF input_files = <<>>
    THEN [disk |-> d, results |-> <<>>, attempted |-> <<>>]
    ELSE LET input_path == Head(input_files)
             out == process_page(d, generate_page_id(input_path), age_group,
                                 skip_qa_fail, env[input_path].rs,
                                 env[input_path].fault)
             rest == process_files(out.fs.disk, Tail(input_files),
                                   age_group, skip_qa_fail, env)
         IN  IF skipped_by_name(input_path)
             THEN process_files(d, Tail(input_files), age_group,
                                skip_qa_fail, env)
             ELSE [disk |-> rest.disk,
                   results |-> <<out.result>> \o rest.results,
                   attempted |-> <<input_path>> \o rest.attempted]

\* Pipeline.process_batch
process_batch(d, dir, age_group, skip_qa_fail, env) ==
    process_files(d, sorted(collect_input_files(dir)), age_group,
                  skip_qa_fail, env)

\* Pipeline._print_summary: the counts it prints
print_summary(rs) ==
    LET total == Len(rs)
        success == Cardinality({i \in DOMAIN rs : rs[i].success})
        qa_fail == Cardinality({i \in DOMAIN rs :
                       rs[i].qa_report # NoReport
                           /\ rs[i].qa_report.result = FAIL})
        qa_warn == Cardinality({i \in DOMAIN rs :
                       rs[i].qa_report # NoReport
                           /\ rs[i].qa_report.result = WARN})
        errors == Cardinality({i \in DOMAIN rs :
                       rs[i].error # None /\ rs[i].qa_report = NoReport})
    IN  [total |-> total, success |-> success,
         qa_pass |-> success - qa_warn, qa_warn |-> qa_warn,
         qa_fail |-> qa_fail, errors |-> errors]

NoSummary == [total |-> None]

\* sum(1 for r in results if r.success)
success_count(rs) == Cardinality({i \in DOMAIN rs : rs[i].success})

\* the value cmd_batch returns
batch_exit_code(rs) ==
    IF success_count(rs) = Len(rs) THEN 0 ELSE 1

\* the value cmd_process returns
process_exit_code(r) == IF r.success THEN 0 ELSE 1

\* the two ways the program is started: python -m image_extractor runs
\* __main__.py, python -m image_extractor.cli runs cli.py as __main__
EntryPoints == {"image_extractor", "image_extractor.cli"}

\* the exit status of the interpreter: cli.py ends in sys.exit(main()),
\* __main__.py calls main() and drops the value it returns
exit_status(entry, returned) ==
    IF entry = "image_extractor.cli" THEN returned ELSE 0

NoCommand == [cmd |-> None]

InitCli ==
    /\ input_dir = {}
    /\ command = NoCommand
    /\ attempted = <<>>
    /\ results = <<>>
    /\ exit_code = None
    /\ summary = NoSummary

\* python -m image_extractor batch input_dir -o output [-a G] [--force]
CmdBatch ==
    /\ command = NoCommand
    /\ \E dir \in SUBSET DirEntries, age_group \in CliAgeGroups,
          force \in BOOLEAN, entry \in EntryPoints :
          \E env \in [ {path \in collect_input_files(dir) :
                            ~skipped_by_name(path)}
                       -> [rs : CliRegionLists, fault : CliFaults] ] :
              LET out == process_batch(disk, dir, age_group, force, env)
              IN  /\ input_dir' = dir
                  /\ command' = [cmd |-> "batch", entry |-> entry,
                                 age_group |-> age_group,
                                 force |-> force, env |-> env]
                  /\ disk' = out.disk
                  /\ attempted' = out.attempted
                  /\ results' = out.results
                  /\ summary' = print_summary(out.results)
                  /\ exit_code' =
                         exit_status(entry, batch_exit_code(out.results))
    /\ UNCHANGED <<qa_vars, written, calls, call, result>>
    /\ UNCHANGED <<region_vars, mask_vars,
                 manifest_vars>>

\* python -m image_extractor process input -o output [-a G] [--force]
CmdProcess ==
    /\ command = NoCommand
    /\ \E input_path \in DirEntries, age_group \in CliAgeGroups,
          force \in BOOLEAN, rs \in CliRegionLists, fault \in Faults,
          entry \in EntryPoints :
          LET out == process_page(disk, input_path.stem, age_group, force,
                                  rs, fault)
          IN  /\ input_dir' = {input_path}
              /\ command' = [cmd |-> "process", entry |-> entry,
                             age_group |-> age_group, force |-> force,
                             env |-> [p \in {input_path} |->
                                         [rs |-> rs, fault |-> fault]]]
              /\ disk' = out.fs.disk
              /\ attempted' = <<input_path>>
              /\ results' = <<out.result>>
              /\ summary' = summary
              /\ exit_code' =
                     exit_status(entry, process_exit_code(out.result))
    /\ UNCHANGED <<qa_vars, written, calls, call, result>>
    /\ UNCHANGED <<region_vars, mask_vars,
                 manifest_vars>>

(***************************************************************************)
(* processors/region_extractor.py, and the two scripts that recompute what *)
(* it computes: extract_regions.py and regenerate_metadata.py.             *)
(*                                                                         *)
(* Images.  An image is piecewise constant over a grid of blocks: column c *)
(* of the grid is cols[c] pixels wide, row r is rows[r] pixels high, and   *)
(* all the pixels of block <<r, c>> carry one value.  A block of width and *)
(* height 1 is a pixel.  Two blocks that share an edge hold pixels that    *)
(* share an edge; two blocks that meet at a corner hold two pixels that    *)
(* touch diagonally and none that share an edge.  So the 4-connected       *)
(* components of the pixels are the 4-connected components of the blocks,  *)
(* with areas, bounding boxes and centroids summed over the blocks.        *)
(*                                                                         *)
(* cv2.connectedComponentsWithStats numbers the components 1..N-1; the     *)
(* order in which it numbers them is not part of its contract, so the      *)
(* numbering is an input of Extract.                                       *)
(*                                                                         *)
(* Centroids are float64 means of integer coordinates: exact fractions     *)
(* [num, den] here.                                                        *)
(***************************************************************************)
Geometry(cols, rows) == [cols |-> cols, rows |-> rows]

\* the images of the model: one with blocks of 499, 1, 250, ... pixels, for
\* components around min_region_area, and one row of blocks for components
\* of 10000, 10001, 50000 and 50001 pixels
Geometries ==
    { Geometry(<<499, 1, 250>>, <<1, 1, 2>>),
      Geometry(<<10000, 1, 10000, 1, 39998, 1, 1>>, <<1>>) }

\* the images whose label map a caller builds pixel by pixel
PixelGeometry == Geometry(<<1, 1, 1>>, <<1>>)

\* config.min_region_area: 500 by default, configurable
MinRegionAreas == {1, 500, 501, 10001}

\* the region ids a caller puts in a label map
LabelIds == {0, 1, 255, 256, 65535, 65536, 16777215, 16777216}

Cells(g) == (1..Len(g.rows)) \X (1..Len(g.cols))

RECURSIVE sum_before(_, _)
\* the pixels before block i along one axis
sum_before(sizes, i) ==
    IF i <= 1 THEN 0 ELSE sizes[i - 1] + sum_before(sizes, i - 1)

\* image_size
width(g) == sum_before(g.cols, Len(g.cols) + 1)
height(g) == sum_before(g.rows, Len(g.rows) + 1)

\* the pixels of a block
area1(g, cell) == g.rows[cell[1]] * g.cols[cell[2]]

RECURSIVE area(_, _)
\* the pixels of a set of blocks
area(g, cells) ==
    IF cells = {} THEN 0
    ELSE LET cell == CHOOSE c \in cells : TRUE
         IN  area1(g, cell) + area(g, cells \ {cell})

\* the sum of the coordinates x0 .. x0 + n - 1
sum_range(x0, n) == n * x0 + (n * (n - 1)) \div 2

RECURSIVE sum_x(_, _)
\* the sum of the x coordinates of the pixels of a set of blocks
sum_x(g, cells) ==
    IF cells = {} THEN 0
    ELSE LET cell == CHOOSE c \in cells : TRUE
         IN  g.rows[cell[1]]
                 * sum_range(sum_before(g.cols, cell[2]), g.cols[cell[2]])
             + sum_x(g, cells \ {cell})

RECURSIVE sum_y(_, _)
\* the sum of the y coordinates of the pixels of a set of blocks
sum_y(g, cells) ==
    IF cells = {} THEN 0
    ELSE LET cell == CHOOSE c \in cells : TRUE
         IN  g.cols[cell[2]]
                 * sum_range(sum_before(g.rows, cell[1]), g.rows[cell[1]])
             + sum_y(g, cells \ {cell})

Min(S) == CHOOSE x \in S : \A y \in S : x <= y
Max(S) == CHOOSE x \in S : \A y \in S : x >= y

\* connectivity=8: blocks that share an edge or a corner
adjacent8(a, b) ==
    /\ a # b
    /\ a[1] - b[1] \in {-1, 0, 1}
    /\ a[2] - b[2] \in {-1, 0, 1}

\* connectivity=4: blocks that share an edge
adjacent(a, b) ==
    \/ a[1] = b[1] /\ a[2] - b[2] \in {-1, 1}
    \/ a[2] = b[2] /\ a[1] - b[1] \in {-1, 1}

RECURSIVE grow(_, _)
\* the blocks of `cells` connected to those of `seen`
grow(seen, cells) ==
    LET more == seen \cup {b \in cells : \E a \in seen : adjacent(a, b)}
    IN  IF more = seen THEN seen ELSE grow(more, cells)

\* the connected components of the non-zero pixels of a mask
components(cells) == {grow({c}, cells) : c \in cells}

\* the numberings of the components: one label of 1..N-1 each
Labelings(comps) ==
    {f \in [comps -> 1..Cardinality(comps)] :
        \A p, q \in comps : p # q => f[p] # f[q]}

\* a bounding box that takes the last column and row for the extent
bounding_box_to_last(g, cells) ==
    LET r == {c[1] : c \in cells}
        c == {b[2] : b \in cells}
        x == sum_before(g.cols, Min(c))
        y == sum_before(g.rows, Min(r))
    IN  <<x, y, sum_before(g.cols, Max(c)) - x,
          sum_before(g.rows, Max(r)) - y>>

\* stats[i][:4]: x, y, width, height of the bounding box of a component
bounding_box(g, cells) ==
    LET r == {c[1] : c \in cells}
        c == {b[2] : b \in cells}
        x == sum_before(g.cols, Min(c))
        y == sum_before(g.rows, Min(r))
    IN  <<x, y, sum_before(g.cols, Max(c) + 1) - x,
          sum_before(g.rows, Max(r) + 1) - y>>

\* cv2.connectedComponentsWithStats(fillable_mask, connectivity=4):
\* num_labels, label_map, stats, centroids
connectedComponentsWithStats(mask, labeling) ==
    LET g == mask.geometry
        comps == DOMAIN labeling
        comp(i) == CHOOSE p \in comps : labeling[p] = i
        labels == 1..Cardinality(comps)
    IN  [num_labels |-> Cardinality(comps) + 1,
         label_map |->
             [geometry |-> g,
              ids |-> [cell \in Cells(g) |->
                          IF cell \in mask.cells
                          THEN labeling[CHOOSE p \in comps : cell \in p]
                          ELSE 0]],
         stats |-> [i \in labels |->
                       [box |-> bounding_box(g, comp(i)),
                        area |-> area(g, comp(i))]],
         centroids |-> [i \in labels |->
                           <<Frac(sum_x(g, comp(i)), area(g, comp(i))),
                             Frac(sum_y(g, comp(i)), area(g, comp(i)))>>]]

\* the filter keeping the components of at most min_region_area pixels
is_noise_above(component_area, min_area) == component_area > min_area

\* the filter of extract_regions.py: `if area > MIN_REGION_AREA`
is_noise_legacy(component_area, min_area) == ~(component_area > min_area)

\* "Skip tiny noise regions": if area < self.config.min_region_area
is_noise(component_area, min_area) == component_area < min_area

RegionMetadata(region_id, centroid, box, pixel_count) ==
    [id |-> region_id, centroid |-> centroid, bounding_box |-> box,
     pixel_count |-> pixel_count]

RECURSIVE build_regions(_, _, _)
\* the loop of extract: for i in range(first, num_labels)
build_regions(cc, first, min_area) ==
    IF first >= cc.num_labels THEN <<>>
    ELSE (IF is_noise(cc.stats[first].area, min_area)
          THEN <<>>
          ELSE << RegionMetadata(first, cc.centroids[first],
                                 cc.stats[first].box,
                                 cc.stats[first].area) >>)
         \o build_regions(cc, first + 1, min_area)

\* RegionExtractor.extract: (label_map, regions)
extract(mask, labeling, min_area) ==
    LET cc == connectedComponentsWithStats(mask, labeling)
    IN  [label_map |-> cc.label_map,
         regions |-> build_regions(cc, 1, min_area)]

\* the difficulty with the limits themselves counted as large
difficulty_inclusive(pixel_count) ==
    IF pixel_count >= 50000 THEN 1
    ELSE IF pixel_count >= 10000 THEN 2
    ELSE 3

\* RegionMetadata.difficulty
difficulty(pixel_count) ==
    IF pixel_count > 50000 THEN 1
    ELSE IF pixel_count > 10000 THEN 2
    ELSE 3

\* extract_regions.py: 1 if area > 50000 else (2 if area > 10000 else 3)
extract_regions_difficulty(component_area) ==
    IF component_area > 50000 THEN 1
    ELSE (IF component_area > 10000 THEN 2 ELSE 3)

\* regenerate_metadata.py, analyze_label_map: "Determine difficulty"
analyze_difficulty(pixel_count) ==
    IF pixel_count > 50000 THEN 1
    ELSE IF pixel_count > 10000 THEN 2
    ELSE 3

\* RegionMetadata.to_dict
to_dict(region) ==
    [id |-> region.id, centroid |-> region.centroid,
     boundingBox |-> region.bounding_box, pixelCount |-> region.pixel_count,
     difficulty |-> difficulty(region.pixel_count)]

\* the encoding with the green and blue channels left unreduced, stored in
\* a uint8 image, which keeps the low 8 bits
encode_low_byte(region_id) ==
    <<region_id % 256, region_id % 256, region_id % 256>>

\* create_rgb_label_map, one region: the (R, G, B) stored for region_id
encode_region_id(region_id) ==
    <<region_id % 256, (region_id \div 256) % 256,
      (region_id \div 65536) % 256>>

\* RegionExtractor.create_rgb_label_map
create_rgb_label_map(lm) ==
    [geometry |-> lm.geometry,
     pixels |-> [cell \in DOMAIN lm.ids |->
                    IF lm.ids[cell] = 0 THEN <<0, 0, 0>>
                    ELSE encode_region_id(lm.ids[cell])]]

\* cv2.cvtColor(img, cv2.COLOR_RGB2BGR) and cv2.COLOR_BGR2RGB
cvtColor(img) ==
    [geometry |-> img.geometry,
     pixels |-> [cell \in DOMAIN img.pixels |->
                    <<img.pixels[cell][3], img.pixels[cell][2],
                      img.pixels[cell][1]>>]]

\* RegionExtractor.save_rgb_label_map: the image written to labels.png
save_rgb_label_map(lm) == cvtColor(create_rgb_label_map(lm))

\* decode_region_id
decode_region_id(r, g, b) == r + (g * 256) + (b * 65536)

\* analyze_label_map of regenerate_metadata.py, for an RGB image
analyze_label_map(png) ==
    LET img_rgb == cvtColor(png)
        g == png.geometry
        decoded == [cell \in DOMAIN img_rgb.pixels |->
                       decode_region_id(img_rgb.pixels[cell][1],
                                        img_rgb.pixels[cell][2],
                                        img_rgb.pixels[cell][3])]
        region_ids == {decoded[cell] : cell \in DOMAIN decoded} \ {0}
        cells_of(id) == {cell \in DOMAIN decoded : decoded[cell] = id}
    IN  [label_map |-> [geometry |-> g, ids |-> decoded],
         encoding |-> "rgb24",
         totalRegions |-> Cardinality(region_ids),
         regions |-> {[id |-> id,
                       boundingBox |-> bounding_box(g, cells_of(id)),
                       pixelCount |-> area(g, cells_of(id)),
                       difficulty |->
                           analyze_difficulty(area(g, cells_of(id)))] :
                          id \in region_ids}]

NoMask == [geometry |-> None]
NoLabelMap == [geometry |-> None]
NoImage == [geometry |-> None]
NoAnalysis == [encoding |-> None]

InitRegions ==
    /\ fillable_mask = NoMask
    /\ min_region_area = 500
    /\ label_map = NoLabelMap
    /\ region_list = <<>>
    /\ labels_png = NoImage
    /\ analysis = NoAnalysis

\* label_map, regions = RegionExtractor(config).extract(fillable_mask)
Extract ==
    /\ label_map = NoLabelMap
    /\ \E g \in Geometries, min_area \in MinRegionAreas :
          \E cells \in SUBSET Cells(g) :
              \E labeling \in Labelings(components(cells)) :
                  LET mask == [geometry |-> g, cells |-> cells]
                      out == extract(mask, labeling, min_area)
                  IN  /\ fillable_mask' = mask
                      /\ min_region_area' = min_area
                      /\ label_map' = out.label_map
                      /\ region_list' = out.regions
    /\ UNCHANGED <<labels_png, analysis>>
    /\ UNCHANGED <<qa_vars, pipeline_vars, cli_vars, mask_vars,
                 manifest_vars>>

\* a caller builds a label map of its own for create_rgb_label_map
LoadLabelMap ==
    /\ label_map = NoLabelMap
    /\ \E ids \in [Cells(PixelGeometry) -> LabelIds] :
          label_map' = [geometry |-> PixelGeometry, ids |-> ids]
    /\ UNCHANGED <<fillable_mask, min_region_area, region_list, labels_png,
                   analysis>>
    /\ UNCHANGED <<qa_vars, pipeline_vars, cli_vars, mask_vars,
                 manifest_vars>>

\* region_extractor.save_rgb_label_map(label_map, "labels.png")
SaveRgbLabelMap ==
    /\ label_map # NoLabelMap
    /\ labels_png = NoImage
    /\ labels_png' = save_rgb_label_map(label_map)
    /\ UNCHANGED <<fillable_mask, min_region_area, label_map, region_list,
                   analysis>>
    /\ UNCHANGED <<qa_vars, pipeline_vars, cli_vars, mask_vars,
                 manifest_vars>>

\* analysis = analyze_label_map("labels.png")
AnalyzeLabelMap ==
    /\ labels_png # NoImage
    /\ analysis = NoAnalysis
    /\ analysis' = analyze_label_map(labels_png)
    /\ UNCHANGED <<fillable_mask, min_region_area, label_map, region_list,
                   labels_png>>
    /\ UNCHANGED <<qa_vars, pipeline_vars, cli_vars, mask_vars,
                 manifest_vars>>

(***************************************************************************)
(* processors/line_extractor.py: LineExtractor._create_fillable_mask.      *)
(*                                                                         *)
(* A line mask is a binary image, given by its shape and the set of its    *)
(* line pixels (value 255); a pixel is <<x, y>>.  cv2.floodFill with the   *)
(* default flags fills the 4-connected pixels that carry the value of the  *)
(* seed, does not go across pixels set in its mask argument, returns at    *)
(* once when the seed itself is set there, and sets the pixels it fills in *)
(* the mask.                                                               *)
(***************************************************************************)
\* (h, w) of the line masks of the model
ImageShapes == { <<3, 4>> }

Pixels(shape) == (0..(shape[2] - 1)) \X (0..(shape[1] - 1))

\* two pixels that share an edge
edge_neighbours(p, q) ==
    \/ p[1] = q[1] /\ p[2] - q[2] \in {-1, 1}
    \/ p[2] = q[2] /\ p[1] - q[1] \in {-1, 1}

RECURSIVE flood(_, _, _)
\* the pixels a fill reaches from `filled`: same value, not set in the mask
flood(filled, img, filled_mask) ==
    LET v == img[CHOOSE p \in filled : TRUE]
        more == filled \cup
                    {q \in DOMAIN img :
                        /\ img[q] = v
                        /\ q \notin filled_mask
                        /\ \E p \in filled : edge_neighbours(p, q)}
    IN  IF more = filled THEN filled ELSE flood(more, img, filled_mask)

\* cv2.floodFill(fillable, mask, seed, 0): the image and the mask after it
floodFill(st, seed) ==
    IF seed \in st.mask THEN st
    ELSE LET filled == flood({seed}, st.img, st.mask)
         IN  [img |-> [p \in DOMAIN st.img |->
                          IF p \in filled THEN 0 ELSE st.img[p]],
              mask |-> st.mask \cup filled]

\* the seeds in the order _create_fillable_mask fills from them
seeds(h, w) ==
    << <<0, 0>>, <<w - 1, 0>>, <<0, h - 1>>, <<w - 1, h - 1>>,
       <<w \div 2, 0>>, <<w \div 2, h - 1>>, <<0, h \div 2>>,
       <<w - 1, h \div 2>> >>

RECURSIVE fill_from(_, _)
\* the successive floodFill calls
fill_from(st, todo) ==
    IF todo = <<>> THEN st
    ELSE fill_from(floodFill(st, Head(todo)), Tail(todo))

\* the image of a binary mask: 255 on its pixels, 0 elsewhere
as_image(m) ==
    [p \in Pixels(m.shape) |-> IF p \in m.pixels THEN 255 ELSE 0]

\* the exterior removal applied to the inverse of its argument
remove_exterior_inverting(shape, img) ==
    LET inverted == [p \in DOMAIN img |-> 255 - img[p]]
        st == fill_from([img |-> inverted, mask |-> {}],
                        seeds(shape[1], shape[2]))
    IN  [shape |-> shape,
         pixels |-> {p \in DOMAIN st.img : st.img[p] > 0}]

\* the exterior removal of _create_fillable_mask: a fresh flood-fill mask,
\* the eight fills with 0, then (fillable > 0) * 255, given as the set of
\* the pixels that are 255
remove_exterior(shape, img) ==
    LET st == fill_from([img |-> img, mask |-> {}],
                        seeds(shape[1], shape[2]))
    IN  [shape |-> shape,
         pixels |-> {p \in DOMAIN st.img : st.img[p] > 0}]

\* LineExtractor._create_fillable_mask: the set of fillable (255) pixels
create_fillable_mask(line_mask) ==
    LET inverted == [p \in Pixels(line_mask.shape) |->
                        IF p \in line_mask.pixels THEN 0 ELSE 255]
    IN  remove_exterior(line_mask.shape, inverted)

NoLines == [shape |-> None]

InitMask ==
    /\ lines = NoLines
    /\ fillable = NoLines
    /\ refilled = NoLines

\* fillable = self._create_fillable_mask(lines_closed)
CreateFillableMask ==
    /\ lines = NoLines
    /\ \E shape \in ImageShapes :
          \E line_pixels \in SUBSET Pixels(shape) :
              LET line_mask == [shape |-> shape, pixels |-> line_pixels]
              IN  /\ lines' = line_mask
                  /\ fillable' = create_fillable_mask(line_mask)
    /\ UNCHANGED refilled
    /\ UNCHANGED <<qa_vars, pipeline_vars, cli_vars, region_vars,
                 manifest_vars>>

\* the exterior removal run once more, on the mask it produced
RemoveExteriorAgain ==
    /\ fillable # NoLines
    /\ refilled = NoLines
    /\ refilled' = remove_exterior(fillable.shape, as_image(fillable))
    /\ UNCHANGED <<lines, fillable>>
    /\ UNCHANGED <<qa_vars, pipeline_vars, cli_vars, region_vars,
                 manifest_vars>>

(***************************************************************************)
(* manifest_builder.py: ManifestBuilder over a directory of processed      *)
(* pages.                                                                  *)
(*                                                                         *)
(* A processed directory has the shape of the output directory of          *)
(* process_page: page directory name |-> the files in it.  A builder is    *)
(* its pages list and its categories dict (a function from the ids it      *)
(* holds).  Of a category and a page entry, the fields that identify and   *)
(* order them are kept (id, ageGroup, sortOrder; id, categoryId, ageGroup, *)
(* regionCount, checksums), the display fields are left out.  A digest     *)
(* stands for the content it was computed from.                            *)
(***************************************************************************)
\* config.CATEGORY_DEFINITIONS
CATEGORY_DEFINITIONS ==
    [id \in {"retro90s", "animals", "butterfly", "nature", "vehicles",
             "fantasy", "mystical"} |->
        CASE id = "retro90s" -> [ageGroup |-> KIDS, sortOrder |-> 0]
          [] id = "animals" -> [ageGroup |-> KIDS, sortOrder |-> 1]
          [] id = "butterfly" -> [ageGroup |-> FAMILY, sortOrder |-> 2]
          [] id = "nature" -> [ageGroup |-> FAMILY, sortOrder |-> 3]
          [] id = "vehicles" -> [ageGroup |-> KIDS, sortOrder |-> 4]
          [] id = "fantasy" -> [ageGroup |-> FAMILY, sortOrder |-> 5]
          [] id = "mystical" -> [ageGroup |-> ADULT, sortOrder |-> 6]]

\* the category ids callers pass: two defined ones and one that is not
CategoryIdArgs == {"animals", "vehicles", "dinosaurs"}

\* the entries of the processed directory: two pages and a hidden directory
ManifestPageIds ==
    { <<"c", "a", "r">>, <<"c", "a", "t">>, <<"_", "c", "a", "t">> }

\* the page ids callers pass to add_page
PageIdArgs == { <<"c", "a", "r">>, <<"c", "a", "t">> }

\* a metadata.json as process_page writes it
PageMetadata ==
    [qaResult |-> PASS, ageGroup |-> KIDS, totalRegions |-> 80]

\* a page directory with all four files
CompletePage ==
    [dir |-> TRUE, image |-> TRUE, labels |-> TRUE, thumb |-> TRUE,
     metadata |-> PageMetadata, debug |-> FALSE]

\* the processed directories of the model: "cat" and the hidden "_cat"
\* complete, "car" with every combination of its four files
ProcessedDirs ==
    { [p \in ManifestPageIds |->
          IF p = <<"c", "a", "r">> THEN page ELSE CompletePage] :
      page \in {EmptyPage} \cup
               [dir : {TRUE}, image : BOOLEAN, labels : BOOLEAN,
                thumb : BOOLEAN, metadata : {NoMetadata, PageMetadata},
                debug : {FALSE}] }

\* path.exists() for page_dir / entry
exists(d, page_id, entry) ==
    /\ d[page_id].dir
    /\ CASE entry = "thumb.png" -> d[page_id].thumb
         [] entry = "image.png" -> d[page_id].image
         [] entry = "labels.png" -> d[page_id].labels
         [] entry = "metadata.json" -> d[page_id].metadata # NoMetadata

\* what open(path, "rb") reads
read_bytes(d, page_id, entry) ==
    CASE entry = "thumb.png" -> <<entry, d[page_id].thumb>>
      [] entry = "image.png" -> <<entry, d[page_id].image>>
      [] entry = "labels.png" -> <<entry, d[page_id].labels>>
      [] entry = "metadata.json" -> <<entry, d[page_id].metadata>>

\* hashlib.sha256(...).hexdigest(): one digest per content
hexdigest(bytes) == ToString(bytes)

\* sha256_file hashing whatever is at the path
sha256_file_unchecked(d, page_id, entry) ==
    "sha256:" \o hexdigest(read_bytes(d, page_id, entry))

\* sha256_file of _calculate_checksums
sha256_file(d, page_id, entry) ==
    IF ~exists(d, page_id, entry) THEN "sha256:missing"
    ELSE "sha256:" \o hexdigest(read_bytes(d, page_id, entry))

\* ManifestBuilder._calculate_checksums
calculate_checksums(d, page_id) ==
    [thumb |-> sha256_file(d, page_id, "thumb.png"),
     image |-> sha256_file(d, page_id, "image.png"),
     labels |-> sha256_file(d, page_id, "labels.png"),
     metadata |-> sha256_file(d, page_id, "metadata.json")]

CategoryEntry(category_id, definition) ==
    [id |-> category_id, ageGroup |-> definition.ageGroup,
     sortOrder |-> definition.sortOrder]

PageEntry(page_id, category_id, age_group, region_count, checksums) ==
    [id |-> page_id, categoryId |-> category_id, ageGroup |-> age_group,
     regionCount |-> region_count, checksums |-> checksums]

\* ManifestBuilder.__init__
Builder(pages_, categories_) == [pages |-> pages_, categories |-> categories_]

NoCategories == [id \in {} |-> None]

NewBuilder == Builder(<<>>, NoCategories)

\* the outcome of a call on a builder: the builder after it, what it raised
Outcome(b, raised) ==
    [pages |-> b.pages, categories |-> b.categories, raised |-> raised]

\* ManifestBuilder.add_category
add_category(b, category_id) ==
    IF category_id \in DOMAIN b.categories THEN Outcome(b, None)
    ELSE IF category_id \notin DOMAIN CATEGORY_DEFINITIONS
    THEN Outcome(b, "ValueError")
    ELSE Outcome(Builder(b.pages,
                         [id \in DOMAIN b.categories \cup {category_id} |->
                             IF id = category_id
                             THEN CategoryEntry(category_id,
                                      CATEGORY_DEFINITIONS[category_id])
                             ELSE b.categories[id]]),
                 None)

\* add_page appending the entry before it looks the category up
add_page_appending_first(b, page_id, category_id, d, age_group, region_count) ==
    LET entry == PageEntry(page_id, category_id, age_group, region_count,
                           calculate_checksums(d, page_id))
        appended == Builder(Append(b.pages, entry), b.categories)
    IN  add_category(appended, category_id)

\* ManifestBuilder.add_page
add_page(b, page_id, category_id, d, age_group, region_count) ==
    LET ensured == IF category_id \notin DOMAIN b.categories
                   THEN add_category(b, category_id)
                   ELSE Outcome(b, None)
        entry == PageEntry(page_id, category_id, age_group, region_count,
                           calculate_checksums(d, page_id))
    IN  IF ensured.raised # None THEN ensured
        ELSE Outcome(Builder(Append(ensured.pages, entry),
                             ensured.categories),
                     None)

RECURSIVE sorted_by_sort_order(_)
\* sorted(self.categories.values(), key=lambda c: c.sort_order)
sorted_by_sort_order(entries) ==
    IF entries = {} THEN <<>>
    ELSE LET first == CHOOSE c \in entries :
                          \A e \in entries : c.sortOrder <= e.sortOrder
         IN  <<first>> \o sorted_by_sort_order(entries \ {first})

\* ManifestBuilder.build
build(b) ==
    [categories |->
         sorted_by_sort_order({b.categories[id] : id \in DOMAIN b.categories}),
     pages |-> b.pages,
     pageCount |-> Len(b.pages)]

\* s.startswith(prefix)
startswith(s, prefix) ==
    Len(s) >= Len(prefix) /\ SubSeq(s, 1, Len(prefix)) = prefix

\* ManifestBuilder._infer_category
infer_category(page_id) ==
    LET page_id_lower == lower(page_id)
    IN  IF \/ contains(page_id_lower, <<"r", "e", "t", "r", "o">>)
           \/ contains(page_id_lower, <<"9", "0", "s">>)
        THEN "retro90s"
        ELSE IF contains(page_id_lower,
                         <<"b", "u", "t", "t", "e", "r", "f", "l", "y">>)
        THEN "butterfly"
        ELSE IF contains(page_id_lower, <<"a", "n", "i", "m", "a", "l">>)
        THEN "animals"
        ELSE IF \/ contains(page_id_lower, <<"n", "a", "t", "u", "r", "e">>)
                \/ contains(page_id_lower, <<"f", "l", "o", "w", "e", "r">>)
        THEN "nature"
        ELSE IF \/ contains(page_id_lower,
                            <<"v", "e", "h", "i", "c", "l", "e">>)
                \/ contains(page_id_lower, <<"c", "a", "r">>)
        THEN "vehicles"
        ELSE IF \/ contains(page_id_lower, <<"f", "a", "i", "r", "y">>)
                \/ contains(page_id_lower,
                            <<"f", "a", "n", "t", "a", "s", "y">>)
        THEN "fantasy"
        ELSE IF \/ contains(page_id_lower,
                            <<"m", "y", "s", "t", "i", "c", "a", "l">>)
                \/ contains(page_id_lower,
                            <<"p", "h", "o", "e", "n", "i", "x">>)
                \/ contains(page_id_lower, <<"d", "r", "a", "g", "o", "n">>)
        THEN "mystical"
        ELSE "animals"

\* the page directories from_processed_directory does not skip
listed(d, page_dir) ==
    /\ d[page_dir].dir
    /\ ~startswith(page_dir, <<"_">>)
    /\ ~startswith(page_dir, <<".">>)
    /\ d[page_dir].metadata # NoMetadata

RECURSIVE add_pages(_, _, _)
\* the loop of from_processed_directory over the sorted directory entries
add_pages(b, d, page_dirs) ==
    IF page_dirs = <<>> THEN Outcome(b, None)
    ELSE LET page_id == Head(page_dirs).stem
             category_id == infer_category(page_id)
             age_group == CATEGORY_DEFINITIONS[category_id].ageGroup
             out == add_page(b, page_id, category_id, d, age_group,
                             d[page_id].metadata.totalRegions)
         IN  IF ~listed(d, page_id)
             THEN add_pages(b, d, Tail(page_dirs))
             ELSE IF out.raised # None THEN out
             ELSE add_pages(Builder(out.pages, out.categories), d,
                            Tail(page_dirs))

\* ManifestBuilder.from_processed_directory
from_processed_directory(d) ==
    add_pages(NewBuilder, d, sorted({Path(p, <<>>) : p \in DOMAIN d}))

NoManifest == [pageCount |-> None]

NoBuilderCall == [op |-> None]

InitManifest ==
    /\ processed_dir = [p \in ManifestPageIds |-> EmptyPage]
    /\ pages = <<>>
    /\ categories = NoCategories
    /\ manifest = NoManifest
    /\ last_call = NoBuilderCall

\* the pipeline has left its outputs in the processed directory
Processed ==
    /\ processed_dir = [p \in ManifestPageIds |-> EmptyPage]
    /\ last_call = NoBuilderCall
    /\ \E d \in ProcessedDirs : processed_dir' = d
    /\ UNCHANGED <<pages, categories, manifest, last_call>>
    /\ UNCHANGED <<qa_vars, pipeline_vars, cli_vars, region_vars, mask_vars>>

\* builder.add_category(category_id)
AddCategory ==
    /\ manifest = NoManifest
    /\ \E category_id \in CategoryIdArgs :
          LET out == add_category(Builder(pages, categories), category_id)
          IN  /\ pages' = out.pages
              /\ categories' = out.categories
              /\ last_call' = [op |-> "add_category",
                               category_id |-> category_id,
                               raised |-> out.raised]
    /\ UNCHANGED <<processed_dir, manifest>>
    /\ UNCHANGED <<qa_vars, pipeline_vars, cli_vars, region_vars, mask_vars>>

\* builder.add_page(page_id, category_id, name, processed_dir, age_group,
\*                  region_count)
AddPage ==
    /\ manifest = NoManifest
    /\ Len(pages) < MaxPages
    /\ \E page_id \in PageIdArgs, category_id \in CategoryIdArgs :
          LET out == add_page(Builder(pages, categories), page_id,
                              category_id, processed_dir, FAMILY, 0)
          IN  /\ pages' = out.pages
              /\ categories' = out.categories
              /\ last_call' = [op |-> "add_page",
                               category_id |-> category_id,
                               raised |-> out.raised]
    /\ UNCHANGED <<processed_dir, manifest>>
    /\ UNCHANGED <<qa_vars, pipeline_vars, cli_vars, region_vars, mask_vars>>

\* builder = ManifestBuilder.from_processed_directory(processed_dir)
FromProcessedDirectory ==
    /\ manifest = NoManifest
    /\ last_call = NoBuilderCall
    /\ LET out == from_processed_directory(processed_dir)
       IN  /\ pages' = out.pages
           /\ categories' = out.categories
           /\ last_call' = [op |-> "from_processed_directory",
                            category_id |-> None,
                            raised |-> out.raised]
    /\ UNCHANGED <<processed_dir, manifest>>
    /\ UNCHANGED <<qa_vars, pipeline_vars, cli_vars, region_vars, mask_vars>>

\* manifest = builder.build()
Build ==
    /\ manifest = NoManifest
    /\ manifest' = build(Builder(pages, categories))
    /\ last_call' = [op |-> "build", category_id |-> None, raised |-> None]
    /\ UNCHANGED <<processed_dir, pages, categories>>
    /\ UNCHANGED <<qa_vars, pipeline_vars, cli_vars, region_vars, mask_vars>>

vars == <<qa_vars, pipeline_vars, cli_vars, region_vars, mask_vars,
          manifest_vars>>

Init ==
    /\ InitQA /\ InitPipeline /\ InitCli /\ InitRegions /\ InitMask
    /\ InitManifest

\* a QAValidator used on its own
Next == AddRegions \/ Validate \/ AutoClassify

Spec == Init /\ [][Next]_vars

\* a Pipeline processing pages into one output directory
NextPipeline == ProcessPage \/ EndCall

PipelineSpec == Init /\ [][NextPipeline]_vars

\* the start of a run of the command-line program, the output directory empty
InitCommand ==
    /\ InitQA
    /\ disk = [p \in CliPageIds |-> EmptyPage]
    /\ written = {}
    /\ calls = 0
    /\ call = NoCall
    /\ result = NoResult
    /\ InitCli
    /\ InitRegions
    /\ InitMask
    /\ InitManifest

\* one run of the command-line program
NextCommand == CmdBatch \/ CmdProcess

CommandSpec == InitCommand /\ [][NextCommand]_vars

\* a mask through extraction, labels.png and back
NextRegions == Extract \/ LoadLabelMap \/ SaveRgbLabelMap \/ AnalyzeLabelMap

RegionSpec == Init /\ [][NextRegions]_vars

\* a line mask through _create_fillable_mask
NextMask == CreateFillableMask \/ RemoveExteriorAgain

MaskSpec == Init /\ [][NextMask]_vars

\* a ManifestBuilder filled by its callers, or from the processed directory,
\* then built
NextManifest ==
    Processed \/ AddCategory \/ AddPage \/ FromProcessedDirectory \/ Build

ManifestSpec == Init /\ [][NextManifest]_vars

(***************************************************************************)
(* Properties of QAValidator, stated over the report last returned for the *)
(* current region list.  The limits are written out as the specification   *)
(* gives them.                                                             *)
(***************************************************************************)
Validated == report # NoReport

SpecMaxRegions(g) == CASE g = KIDS -> 150 [] g = FAMILY -> 300 [] g = ADULT -> 1000
SpecMinPixels(g) == CASE g = KIDS -> 5000 [] g = FAMILY -> 2000 [] g = ADULT -> 500

HasIssue(rep, severity, code) ==
    \E i \in DOMAIN rep.issues :
        rep.issues[i].severity = severity /\ rep.issues[i].code = code

HasCode(rep, code) ==
    \E i \in DOMAIN rep.issues : rep.issues[i].code = code

HasSeverity(rep, severity) ==
    \E i \in DOMAIN rep.issues : rep.issues[i].severity = severity

\* every region of the list has pixel_count >= m
AllAtLeast(rs, m) == \A i \in DOMAIN rs : rs[i].pixel_count >= m

\* C1: validate reports a FAIL-severity REGION_COUNT_EXCEEDED issue, and then
\* verdict FAIL, if and only if len(regions) > max_regions[age_group]; with
\* exactly the maximum there is no region-count issue.
C1_RegionCountRule ==
    Validated =>
        /\ HasIssue(report, FAIL, "REGION_COUNT_EXCEEDED")
               <=> len(regions) > SpecMaxRegions(report.age_group)
        /\ HasCode(report, "REGION_COUNT_EXCEEDED")
               => HasIssue(report, FAIL, "REGION_COUNT_EXCEEDED")
        /\ len(regions) > SpecMaxRegions(report.age_group)
               => report.result = FAIL
        /\ len(regions) = SpecMaxRegions(report.age_group)
               => ~HasCode(report, "REGION_COUNT_EXCEEDED")

\* a list of 151 regions validated as KIDS: the issue is there, the verdict FAIL
C1_Witness ==
    /\ Validated
    /\ report.age_group = KIDS
    /\ len(regions) = 151
    /\ HasIssue(report, FAIL, "REGION_COUNT_EXCEEDED")
    /\ report.result = FAIL

\* C2: for each age group G, a list of exactly max_regions[G] regions, each
\* with pixelCount at or above min_pixels[G], validated as G, has verdict PASS.
C2_ExactlyMaxPasses ==
    (/\ Validated
     /\ len(regions) = SpecMaxRegions(report.age_group)
     /\ AllAtLeast(regions, SpecMinPixels(report.age_group)))
        => report.result = PASS

\* C3: for a non-empty list, validate reports a FAIL-severity
\* TOO_MANY_TINY_REGIONS issue, and then verdict FAIL, if and only if the
\* regions with pixelCount < min_pixels[age_group] are strictly more than 30%
\* of the list; a region of exactly the minimum is not tiny.
C3_TinyRegionRule ==
    (Validated /\ len(regions) > 0) =>
        LET tiny == count_below(regions, SpecMinPixels(report.age_group))
        IN  /\ report.tiny_region_count = tiny
            /\ HasIssue(report, FAIL, "TOO_MANY_TINY_REGIONS")
                   <=> 10 * tiny > 3 * len(regions)
            /\ HasCode(report, "TOO_MANY_TINY_REGIONS")
                   => HasIssue(report, FAIL, "TOO_MANY_TINY_REGIONS")
            /\ 10 * tiny > 3 * len(regions) => report.result = FAIL
            /\ AllAtLeast(regions, SpecMinPixels(report.age_group))
                   => report.tiny_region_count = 0

\* exactly 30% of the regions are tiny, the others are of exactly the
\* minimum: no tiny-region issue
C3_Witness ==
    /\ Validated
    /\ len(regions) = 10
    /\ report.tiny_region_count = 3
    /\ \E i \in DOMAIN regions :
           regions[i].pixel_count = SpecMinPixels(report.age_group)
    /\ ~HasCode(report, "TOO_MANY_TINY_REGIONS")

\* C4: when exactly 30% of the regions are below the minimum pixel count of
\* the target age group and the region count does not exceed that group's
\* maximum, the verdict is PASS.
C4_ExactlyThirtyPercentPasses ==
    (/\ Validated
     /\ len(regions) > 0
     /\ 10 * count_below(regions, SpecMinPixels(report.age_group))
            = 3 * len(regions)
     /\ len(regions) <= SpecMaxRegions(report.age_group))
        => report.result = PASS

C6_WorstSeverityWins ==
    Validated =>
        /\ report.result = FAIL <=> HasSeverity(report, FAIL)
        /\ report.result = WARN
               <=> (~HasSeverity(report, FAIL) /\ HasSeverity(report, WARN))
        /\ report.result = PASS <=> report.issues = <<>>
        /\ report.result \in QAResult
        /\ \A i \in DOMAIN report.issues :
               /\ report.issues[i].severity \in {FAIL, WARN}
               /\ report.issues[i].code = "AGE_GROUP_MISMATCH"
                      => report.issues[i].severity = WARN
        /\ (\A i \in DOMAIN report.issues :
                report.issues[i].code = "AGE_GROUP_MISMATCH")
               => report.result # FAIL

\* a report with a FAIL issue and the mismatch warning: the verdict is FAIL
C6_Witness ==
    /\ Validated
    /\ HasSeverity(report, FAIL)
    /\ HasIssue(report, WARN, "AGE_GROUP_MISMATCH")
    /\ report.result = FAIL

\* the ordered rule list of the specification, over the region count, the
\* number of tiny regions and the sum of the pixel counts
SpecRecommend(count, tiny, total) ==
    IF count <= 80 /\ count > 0 /\ total >= 10000 * count THEN KIDS
    ELSE IF count <= 200 /\ count > 0 /\ total >= 3000 * count THEN FAMILY
    ELSE IF count <= 150 /\ 5 * tiny <= count THEN KIDS
    ELSE IF count <= 300 /\ 4 * tiny <= count THEN FAMILY
    ELSE ADULT

\* the recommendation validate derived, read off its report
Recommended(rep) ==
    IF rep.recommended_age_group = None
    THEN rep.age_group ELSE rep.recommended_age_group

\* C7: _recommend_age_group returns the first matching rule of (1) count <= 80
\* and average >= 10000: KIDS; (2) count <= 200 and average >= 3000: FAMILY;
\* (3) count <= 150 and tiny_pct <= 0.20: KIDS; (4) count <= 300 and
\* tiny_pct <= 0.25: FAMILY; (5) ADULT; the average of no regions is 0.  Both
\* callers are covered: validate (tiny_pct under the target's minimum) and
\* auto_classify (tiny_pct under FAMILY's 2000 px).  120 regions of 3000 px
\* give FAMILY, 500 regions of 1500 px give ADULT.
C7_RecommendFirstMatch ==
    /\ Validated =>
           Recommended(report)
               = SpecRecommend(len(regions), report.tiny_region_count,
                               sum_pixel_count(regions))
    /\ classified # None =>
           classified
               = SpecRecommend(len(regions), count_below(regions, 2000),
                               sum_pixel_count(regions))
    /\ auto_classify(<<[pixel_count |-> 3000, n |-> 120]>>)[1] = FAMILY
    /\ auto_classify(<<[pixel_count |-> 1500, n |-> 500]>>)[1] = ADULT

\* rule 3 decides: more than 80 regions, average below 3000, classified KIDS
C7_Witness ==
    /\ classified = KIDS
    /\ len(regions) > 80
    /\ sum_pixel_count(regions) < 3000 * len(regions)

\* C8 as stated: auto_classify returns (G, report) with report.age_group = G,
\* no AGE_GROUP_MISMATCH issue and recommended_age_group None.
C8_AutoClassifyNeverMismatched ==
    classified # None =>
        /\ report.age_group = classified
        /\ ~HasCode(report, "AGE_GROUP_MISMATCH")
        /\ report.recommended_age_group = None

\* rules 1 and 2 of the recommendation do not read tiny_pct
ByAverage(rs) ==
    /\ len(rs) > 0
    /\ \/ len(rs) <= 80 /\ sum_pixel_count(rs) >= 10000 * len(rs)
       \/ len(rs) <= 200 /\ sum_pixel_count(rs) >= 3000 * len(rs)

\* C8 as amended: auto_classify returns (G, report) with report.age_group = G;
\* the report has no AGE_GROUP_MISMATCH issue and recommended_age_group None
\* when G is FAMILY or G was chosen by rule 1 or 2 (which do not read
\* tiny_pct), and in general exactly when the rule list gives G again with
\* tiny_pct recomputed under G's own minimum; otherwise (G = KIDS by rule 3,
\* or G = ADULT) the report carries AGE_GROUP_MISMATCH.
C8_AutoClassifyReport ==
    classified # None =>
        /\ report.age_group = classified
        /\ (classified = FAMILY \/ ByAverage(regions)) =>
               /\ ~HasCode(report, "AGE_GROUP_MISMATCH")
               /\ report.recommended_age_group = None
        /\ HasCode(report, "AGE_GROUP_MISMATCH")
               <=> report.recommended_age_group # None
        /\ HasCode(report, "AGE_GROUP_MISMATCH")
               <=> SpecRecommend(len(regions),
                                 count_below(regions,
                                             SpecMinPixels(classified)),
                                 sum_pixel_count(regions)) # classified

\* classified KIDS under FAMILY's threshold, yet the report, which counts
\* tiny regions under KIDS' threshold, recommends another group
C8_Witness ==
    /\ classified = KIDS
    /\ report.age_group = KIDS
    /\ HasIssue(report, WARN, "AGE_GROUP_MISMATCH")
    /\ report.recommended_age_group # None

(***************************************************************************)
(* Properties of Pipeline.process_page, stated over the call that has just *)
(* returned: its arguments (call), its result, the QA report it obtained   *)
(* (report), the output directory (disk) and what the call wrote there     *)
(* (written).                                                              *)
(***************************************************************************)
Returned == call # NoCall

\* the QA step of the call ran and its verdict is FAIL
VerdictFail == report # NoReport /\ report.result = FAIL

\* C9: when process_page is called with skip_qa_fail=False and the QA verdict
\* is FAIL, the call writes nothing to disk (no page directory, image.png,
\* labels.png, thumb.png or metadata.json is created or modified) and returns
\* success=False with the QA report attached.  (No operation of the call
\* fails.)
C9_RejectedPageWritesNothing ==
    (Returned /\ ~call.skip_qa_fail /\ VerdictFail /\ call.fault = "none") =>
        /\ written = {}
        /\ result.success = FALSE
        /\ result.qa_report = report

IsInputFile(path) ==
    path.suffix \in { <<".", "p", "n", "g">>, <<".", "j", "p", "g">>,
                      <<".", "j", "p", "e", "g">>, <<".", "P", "N", "G">>,
                      <<".", "J", "P", "G">>, <<".", "J", "P", "E", "G">> }

\* the input files of the directory that process_batch does not skip by name
Eligible == {path \in input_dir : IsInputFile(path) /\ ~skipped_by_name(path)}

\* an operation of the call made for the i-th attempted file failed: the
\* input could not be read, or the call reached "Save outputs" and a write
\* failed there
CallFailed(i) ==
    LET fault == command.env[attempted[i]].fault
    IN  \/ fault = "unreadable_input"
        \/ /\ fault \in {"write_image", "write_metadata"}
           /\ results[i].error # "QA validation failed"

\* C11: process_page never propagates an exception: a failure in line
\* extraction (unreadable input), region extraction, QA or saving is returned
\* as ProcessingResult(success=False, error=<message>) with no QA report, and
\* process_batch then continues, so its result list holds exactly one result,
\* in sorted file order, for every input file not skipped by name, whatever
\* happened to earlier pages.
C11_FailuresBecomeResults ==
    command.cmd = "batch" =>
        /\ Len(results) = Cardinality(Eligible)
        /\ Len(attempted) = Len(results)
        /\ {attempted[i] : i \in DOMAIN attempted} = Eligible
        /\ \A i, j \in DOMAIN attempted :
               i < j => str_less(name(attempted[i]), name(attempted[j]))
        /\ \A i \in DOMAIN results :
               /\ results[i].page_id = generate_page_id(attempted[i])
               /\ CallFailed(i) =>
                      /\ results[i].success = FALSE
                      /\ results[i].error # None
                      /\ results[i].qa_report = NoReport

\* C12: the batch command exits with 1 if and only if at least one processed
\* page has success=False, and with 0 otherwise (including when no input
\* file is found); every page is attempted before the exit code is decided.
\* The process command exits 0 iff its single result has success=True.
C12_ExitCodeTellsFailure ==
    /\ command.cmd = "batch" =>
           /\ exit_code = 1
                  <=> \E i \in DOMAIN results : results[i].success = FALSE
           /\ exit_code = 0
                  <=> \A i \in DOMAIN results : results[i].success = TRUE
           /\ Len(results) = Cardinality(Eligible)
    /\ command.cmd = "process" =>
           /\ Len(results) = 1
           /\ exit_code = 0 <=> results[1].success = TRUE
           /\ exit_code = 1 <=> results[1].success = FALSE

(***************************************************************************)
(* Properties of RegionExtractor, stated over the mask last given to       *)
(* extract, the label map and region list it returned, labels.png as       *)
(* save_rgb_label_map wrote it, and what analyze_label_map read back.      *)
(***************************************************************************)
Extracted == fillable_mask # NoMask
Saved == labels_png # NoImage
Analyzed == analysis # NoAnalysis

\* the id decoded from a pixel of labels.png, which OpenCV holds as (B, G, R)
DecodedId(cell) ==
    labels_png.pixels[cell][3] + labels_png.pixels[cell][2] * 256
        + labels_png.pixels[cell][1] * 65536

\* the ids of the Region records of the region list
RegionIds == {region_list[i].id : i \in DOMAIN region_list}

\* the blocks of the label map that carry an id
CellsOf(id) == {cell \in DOMAIN label_map.ids : label_map.ids[cell] = id}

\* C13: label round-trip: for every label map whose IDs lie in
\* [0, 16777215], create_rgb_label_map followed by decoding each pixel with
\* R + G*256 + B*65536 reproduces the original ID at every pixel, background
\* pixels stay (0,0,0), and every channel value is in 0..255; so does
\* analyze_label_map reading labels.png.
C13_LabelRoundTrip ==
    (/\ Saved
     /\ \A cell \in DOMAIN label_map.ids :
            label_map.ids[cell] \in 0..16777215)
        => /\ \A cell \in DOMAIN label_map.ids :
                  /\ DecodedId(cell) = label_map.ids[cell]
                  /\ label_map.ids[cell] = 0
                         => labels_png.pixels[cell] = <<0, 0, 0>>
                  /\ \A k \in 1..3 : labels_png.pixels[cell][k] \in 0..255
           /\ Analyzed => analysis.label_map = label_map

\* a label map with the ids 256, 65536 and 16777215, saved and read back
C13_Witness ==
    /\ Saved
    /\ Analyzed
    /\ {label_map.ids[cell] : cell \in DOMAIN label_map.ids}
           = {256, 65536, 16777215}
    /\ analysis.label_map = label_map

\* C14: components dropped by the area filter are not emitted in the RGB
\* label map: after extract and save_rgb_label_map on the same mask, every
\* non-zero ID decoded from a pixel of labels.png is the id of a Region
\* record of the returned region list.
C14_LabelMapHoldsOnlyRegions ==
    (Extracted /\ Saved) =>
        \A cell \in DOMAIN labels_png.pixels :
            DecodedId(cell) # 0 => DecodedId(cell) \in RegionIds

\* two blocks that share an edge
ShareEdge(a, b) ==
    (a[1] - b[1]) * (a[1] - b[1]) + (a[2] - b[2]) * (a[2] - b[2]) = 1

\* two blocks that touch at a corner only
ShareCornerOnly(a, b) ==
    (a[1] - b[1]) * (a[1] - b[1]) + (a[2] - b[2]) * (a[2] - b[2]) = 2

RECURSIVE PathJoined(_, _)
\* the fillable blocks joined to those of S by a path of fillable blocks in
\* which consecutive blocks share an edge
PathJoined(S, cells) ==
    LET step == S \cup {b \in cells : \E a \in S : ShareEdge(a, b)}
    IN  IF step = S THEN S ELSE PathJoined(step, cells)

\* the connected components of the mask, by paths
PathComponents == {PathJoined({c}, fillable_mask.cells) :
                       c \in fillable_mask.cells}

\* the pixels of a set of blocks
Area(cells) == area(fillable_mask.geometry, cells)

\* C15: the region list returned by extract holds exactly one record for
\* each non-background connected component whose area is >= min_region_area
\* (a component of exactly 500 pixels is kept, one of 499 is dropped); each
\* record's id is that component's positive label, so ids are pairwise
\* distinct, never 0, and pixelCount equals the number of label-map pixels
\* carrying that id.
C15_OneRecordPerKeptComponent ==
    Extracted =>
        LET kept == {p \in PathComponents : Area(p) >= min_region_area}
        IN  /\ Len(region_list) = Cardinality(kept)
            /\ \A p \in kept : \E i \in DOMAIN region_list :
                   /\ CellsOf(region_list[i].id) = p
                   /\ \A j \in DOMAIN region_list :
                          CellsOf(region_list[j].id) = p => j = i
            /\ \A i \in DOMAIN region_list :
                   /\ region_list[i].id > 0
                   /\ CellsOf(region_list[i].id) \in kept
                   /\ region_list[i].pixel_count
                          = Area(CellsOf(region_list[i].id))
                   /\ \A j \in DOMAIN region_list :
                          region_list[i].id = region_list[j].id => i = j
            /\ min_region_area = 500 =>
                   \A p \in PathComponents :
                       /\ Area(p) = 500 =>
                              \E i \in DOMAIN region_list :
                                  CellsOf(region_list[i].id) = p
                       /\ Area(p) = 499 =>
                              \A i \in DOMAIN region_list :
                                  CellsOf(region_list[i].id) # p

\* min_region_area = 500, a component of 500 pixels kept and one of 499
\* pixels dropped
C15_Witness ==
    /\ Extracted
    /\ min_region_area = 500
    /\ \E p, q \in PathComponents :
           /\ Area(p) = 500
           /\ Area(q) = 499
           /\ \E i \in DOMAIN region_list :
                  /\ CellsOf(region_list[i].id) = p
                  /\ region_list[i].pixel_count = 500
           /\ \A i \in DOMAIN region_list : CellsOf(region_list[i].id) # q

\* C16: 4-connectivity: two fillable pixels receive the same region label if
\* and only if they are joined by a path of fillable pixels in which
\* consecutive pixels share an edge; fillable pixels that touch only
\* diagonally belong to different regions.  Fillable pixels have a non-zero
\* label, the others label 0.
C16_FourConnectivity ==
    Extracted =>
        /\ \A a, b \in fillable_mask.cells :
               /\ label_map.ids[a] = label_map.ids[b]
                      <=> b \in PathJoined({a}, fillable_mask.cells)
               /\ (ShareCornerOnly(a, b)
                   /\ b \notin PathJoined({a}, fillable_mask.cells))
                      => label_map.ids[a] # label_map.ids[b]
        /\ \A c \in DOMAIN label_map.ids :
               label_map.ids[c] # 0 <=> c \in fillable_mask.cells

\* two fillable blocks that meet at a corner, the two blocks beside them
\* not fillable: two labels
C16_Witness ==
    /\ Extracted
    /\ \E a, b \in fillable_mask.cells :
           /\ ShareCornerOnly(a, b)
           /\ \A c \in fillable_mask.cells :
                  ~(ShareEdge(a, c) /\ ShareEdge(c, b))
           /\ label_map.ids[a] # label_map.ids[b]
           /\ label_map.ids[a] > 0
           /\ label_map.ids[b] > 0

\* the numbering connectedComponentsWithStats gave the components
LabelingUsed ==
    [p \in components(fillable_mask.cells) |->
        label_map.ids[CHOOSE c \in p : TRUE]]

\* the region list extract returns for the same mask with another threshold
RegionsWith(threshold) ==
    extract(fillable_mask, LabelingUsed, threshold).regions

\* the records of a list
Records(list) == {list[i] : i \in DOMAIN list}

\* C17: region count monotonicity: for the same fillable mask and any two
\* thresholds a <= b, the region list returned by extract with
\* min_region_area = b is a subset of (and so no longer than) the list
\* returned with min_region_area = a.
C17_RaisingThresholdDropsRegions ==
    Extracted =>
        /\ region_list = RegionsWith(min_region_area)
        /\ \A a, b \in MinRegionAreas :
               a <= b =>
                   /\ Records(RegionsWith(b)) \subseteq Records(RegionsWith(a))
                   /\ Len(RegionsWith(b)) <= Len(RegionsWith(a))

\* a mask from which the threshold 500 drops some but not all of the
\* regions that the threshold 1 returns
C17_Witness ==
    /\ Extracted
    /\ min_region_area = 500
    /\ region_list # <<>>
    /\ Len(region_list) < Len(RegionsWith(1))
    /\ Records(region_list) \subseteq Records(RegionsWith(1))

\* the difficulty of the specification
SpecDifficulty(pixelCount) ==
    CASE pixelCount > 50000 -> 1
      [] pixelCount > 10000 /\ pixelCount <= 50000 -> 2
      [] OTHER -> 3

\* C18: difficulty is a pure function of pixelCount that every consumer
\* computes identically: RegionMetadata.difficulty, extract_regions.py and
\* regenerate_metadata.py all return 1 when pixelCount > 50000, 2 when
\* 10000 < pixelCount <= 50000, and 3 otherwise (exactly 50000 gives 2,
\* exactly 10000 gives 3), independent of id, position or order.
C18_DifficultyAgrees ==
    /\ \A i \in DOMAIN region_list :
           LET pixelCount == region_list[i].pixel_count
           IN  /\ to_dict(region_list[i]).difficulty
                      = SpecDifficulty(pixelCount)
               /\ extract_regions_difficulty(pixelCount)
                      = SpecDifficulty(pixelCount)
               /\ analyze_difficulty(pixelCount) = SpecDifficulty(pixelCount)
               /\ pixelCount = 50000 => to_dict(region_list[i]).difficulty = 2
               /\ pixelCount = 10000 => to_dict(region_list[i]).difficulty = 3
    /\ Analyzed =>
           \A r \in analysis.regions :
               /\ r.difficulty = SpecDifficulty(r.pixelCount)
               /\ \A i \in DOMAIN region_list :
                      region_list[i].id = r.id =>
                          to_dict(region_list[i]).difficulty = r.difficulty

\* a region of exactly 50000 pixels and one of exactly 10000 pixels, both in
\* the region list and in what analyze_label_map read from labels.png
C18_Witness ==
    /\ Analyzed
    /\ \E i, j \in DOMAIN region_list :
           /\ region_list[i].pixel_count = 50000
           /\ to_dict(region_list[i]).difficulty = 2
           /\ region_list[j].pixel_count = 10000
           /\ to_dict(region_list[j]).difficulty = 3
           /\ region_list[i].id # region_list[j].id
    /\ \E r \in analysis.regions : r.pixelCount = 50000 /\ r.difficulty = 2
    /\ \E r \in analysis.regions : r.pixelCount = 10000 /\ r.difficulty = 3

\* low <= c <= high for a centroid coordinate c = num / den
CentroidWithin(c, low, high) ==
    LET q == c.num \div c.den
        r == c.num % c.den
    IN  /\ low <= q
        /\ q < high \/ (q = high /\ r = 0)

\* C19: every region returned by extract has a bounding box that lies fully
\* inside the image (x >= 0, y >= 0, x + width <= image width,
\* y + height <= image height) and a centroid that lies inside its own
\* bounding box (x <= cx <= x + width - 1 and y <= cy <= y + height - 1).
C19_BoxAndCentroidInside ==
    Extracted =>
        \A i \in DOMAIN region_list :
            LET x == region_list[i].bounding_box[1]
                y == region_list[i].bounding_box[2]
                w == region_list[i].bounding_box[3]
                h == region_list[i].bounding_box[4]
                cx == region_list[i].centroid[1]
                cy == region_list[i].centroid[2]
            IN  /\ x >= 0
                /\ y >= 0
                /\ x + w <= width(fillable_mask.geometry)
                /\ y + h <= height(fillable_mask.geometry)
                /\ CentroidWithin(cx, x, x + w - 1)
                /\ CentroidWithin(cy, y, y + h - 1)

\* a region that is not convex: its bounding box is the whole image, its
\* centroid is not at the centre of the box
C19_Witness ==
    /\ Extracted
    /\ \E i \in DOMAIN region_list :
           /\ region_list[i].bounding_box
                  = <<0, 0, width(fillable_mask.geometry),
                      height(fillable_mask.geometry)>>
           /\ region_list[i].pixel_count
                  < width(fillable_mask.geometry)
                        * height(fillable_mask.geometry)
           /\ region_list[i].centroid[1].num
                      \div region_list[i].centroid[1].den
                  # (width(fillable_mask.geometry) - 1) \div 2

(***************************************************************************)
(* Properties of LineExtractor._create_fillable_mask, stated over the line *)
(* mask last given to it and the fillable mask it returned.                *)
(***************************************************************************)
MaskCreated == lines # NoLines

\* the pixels on an edge of the image
OnBorder(p, shape) ==
    \/ p[1] = 0
    \/ p[2] = 0
    \/ p[1] = shape[2] - 1
    \/ p[2] = shape[1] - 1

RECURSIVE Reachable(_, _)
\* the non-line pixels joined to those of S by edge-sharing non-line pixels
Reachable(S, free) ==
    LET step == S \cup {q \in free : \E p \in S :
                           (p[1] - q[1]) * (p[1] - q[1])
                               + (p[2] - q[2]) * (p[2] - q[2]) = 1}
    IN  IF step = S THEN S ELSE Reachable(step, free)

\* C20: the fillable mask returned by _create_fillable_mask contains no
\* background reachable from the image border: no fillable (255) pixel
\* belongs to a 4-connected set of non-line pixels that touches any edge of
\* the image, for every line mask.
C20_NoFillableReachesBorder ==
    MaskCreated =>
        LET free == Pixels(lines.shape) \ lines.pixels
        IN  \A p \in fillable.pixels :
                \A q \in Reachable({p}, free) : ~OnBorder(q, lines.shape)

\* the exterior removal has run again on the mask it produced
Refilled == refilled # NoLines

\* C21: running the exterior removal (eight seeds, fill value 0, then forced
\* to 0/255) on a mask that this step produced returns the same mask, and
\* every pixel of the result is 0 or 255.
C21_ExteriorRemovalIdempotent ==
    Refilled =>
        /\ refilled = fillable
        /\ \A p \in Pixels(refilled.shape) :
               as_image(refilled)[p] \in {0, 255}

\* a mask with exterior removed at the first pass, interior left, run again
C21_Witness ==
    /\ Refilled
    /\ refilled.pixels # {}
    /\ fillable.pixels # Pixels(lines.shape) \ lines.pixels

\* C22: within one process_batch run two distinct input files are never
\* given the same page_id by _generate_page_id, so no two pages write
\* image.png, labels.png, thumb.png or metadata.json into the same
\* output_dir/page_id directory.
C22_OwnSubdirectoryPerPage ==
    command.cmd = "batch" =>
        \A i, j \in DOMAIN attempted :
            attempted[i] # attempted[j] =>
                generate_page_id(attempted[i]) # generate_page_id(attempted[j])

C25_RecommendationIgnoresTarget ==
    (Validated /\ classified = None) =>
        \A g \in AgeGroup :
            Recommended(validate(regions, g)) = Recommended(report)

\* C25 as amended: the recommendation validate derives is the rule list
\* applied to the count, the average and the tiny percentage under the
\* target's own minimum; it is the same for the three targets when rule 1
\* or 2 decides (they read the average only) or the list has more than 300
\* regions (ADULT), and may differ with the target otherwise.
C25_RecommendationByTarget ==
    (Validated /\ classified = None) =>
        /\ \A g \in AgeGroup :
               Recommended(validate(regions, g))
                   = SpecRecommend(len(regions),
                                   count_below(regions, SpecMinPixels(g)),
                                   sum_pixel_count(regions))
        /\ (ByAverage(regions) \/ len(regions) > 300) =>
               \A g \in AgeGroup :
                   Recommended(validate(regions, g)) = Recommended(report)

\* a list validated against a target whose tiny percentage lets rule 3 or 4
\* decide otherwise than under another target
C25_Witness ==
    /\ Validated
    /\ classified = None
    /\ ~ByAverage(regions)
    /\ len(regions) <= 300
    /\ \E g \in AgeGroup :
           Recommended(validate(regions, g)) # Recommended(report)

\* C27: every QAReport returned by validate is internally consistent: its
\* verdict is PASS iff the issue list is empty; recommended_age_group is
\* non-None iff the list contains an AGE_GROUP_MISMATCH issue, and then
\* differs from age_group; FAIL-severity issues precede the WARN issue, so
\* in a FAIL report issues[0] has FAIL severity.
C27_ReportConsistent ==
    Validated =>
        /\ report.result = PASS <=> report.issues = <<>>
        /\ report.recommended_age_group # None
               <=> HasCode(report, "AGE_GROUP_MISMATCH")
        /\ report.recommended_age_group # None
               => report.recommended_age_group # report.age_group
        /\ \A i, j \in DOMAIN report.issues :
               (report.issues[i].severity = WARN
                    /\ report.issues[j].severity = FAIL) => j < i
        /\ report.result = FAIL => report.issues[1].severity = FAIL

\* a FAIL report with both FAIL issues and the warning after them
C27_Witness ==
    /\ Validated
    /\ report.result = FAIL
    /\ Len(report.issues) = 3
    /\ report.recommended_age_group # None

\* C28: with the default limits, the report returned by auto_classify has a
\* REGION_COUNT_EXCEEDED issue if and only if the list has more than 1000
\* regions: when auto_classify recommends KIDS the count is <= 150, when it
\* recommends FAMILY the count is <= 300.
C28_AutoClassifyCountExceeded ==
    classified # None =>
        /\ HasCode(report, "REGION_COUNT_EXCEEDED") <=> len(regions) > 1000
        /\ classified = KIDS => len(regions) <= 150
        /\ classified = FAMILY => len(regions) <= 300

\* more than 1000 regions auto-classified, the count issue reported
C28_Witness ==
    /\ classified = ADULT
    /\ len(regions) > 1000
    /\ HasIssue(report, FAIL, "REGION_COUNT_EXCEEDED")

\* the number of results of the batch whose QA report has the verdict v
WithVerdict(v) ==
    Cardinality({i \in DOMAIN results :
                    results[i].qa_report # NoReport
                        /\ results[i].qa_report.result = v})

\* C26: in the summary printed by process_batch, for every mix of outcomes
\* and both values of skip_qa_fail, 'QA Pass' is the number of results
\* whose QA verdict is PASS, 'QA Warn' the number with WARN, 'QA Fail' the
\* number with FAIL, 'Errors' the number with an error and no QA report,
\* and the four counts add up to 'Total processed'.
C26_SummaryCountsConsistent ==
    command.cmd = "batch" =>
        /\ summary.qa_pass = WithVerdict(PASS)
        /\ summary.qa_warn = WithVerdict(WARN)
        /\ summary.qa_fail = WithVerdict(FAIL)
        /\ summary.errors =
               Cardinality({i \in DOMAIN results :
                               results[i].error # None
                                   /\ results[i].qa_report = NoReport})
        /\ summary.qa_pass + summary.qa_warn + summary.qa_fail
               + summary.errors = summary.total

(***************************************************************************)
(* Properties of ManifestBuilder.                                          *)
(***************************************************************************)
AssetNames == {"thumb.png", "image.png", "labels.png", "metadata.json"}

\* the checksum a page entry holds for an asset
ChecksumOf(entry, asset) ==
    CASE asset = "thumb.png" -> entry.checksums.thumb
      [] asset = "image.png" -> entry.checksums.image
      [] asset = "labels.png" -> entry.checksums.labels
      [] asset = "metadata.json" -> entry.checksums.metadata

\* the step is a call of add_page (one that raised twice in a row with the
\* same arguments changes nothing and is not told from no step)
AddPageStep ==
    /\ last_call'.op = "add_page"
    /\ <<pages, categories, last_call>>' # <<pages, categories, last_call>>

\* C23: add_page never fails because an asset file is absent: it appends
\* the page entry, and each of the four checksums (thumb, image, labels,
\* metadata) is "sha256:missing" if and only if that file does not exist
\* under processed_dir/page_id at the time of the call, and the digest of
\* the file otherwise.
C23_MissingAssetsAreRecorded ==
    [][ (AddPageStep
            /\ last_call'.category_id \in DOMAIN CATEGORY_DEFINITIONS) =>
        /\ last_call'.raised = None
        /\ Len(pages') = Len(pages) + 1
        /\ SubSeq(pages', 1, Len(pages)) = pages
        /\ LET entry == pages'[Len(pages')]
           IN  \A asset \in AssetNames :
                   /\ ChecksumOf(entry, asset) = "sha256:missing"
                          <=> ~exists(processed_dir, entry.id, asset)
                   /\ exists(processed_dir, entry.id, asset) =>
                          ChecksumOf(entry, asset)
                              = "sha256:" \o hexdigest(
                                    read_bytes(processed_dir, entry.id,
                                               asset)) ]_vars

\* a page added whose thumb.png and metadata.json are absent, the other two
\* files present
C23_Witness ==
    /\ last_call.op = "add_page"
    /\ last_call.raised = None
    /\ LET entry == pages[Len(pages)]
       IN  /\ entry.checksums.thumb = "sha256:missing"
           /\ entry.checksums.metadata = "sha256:missing"
           /\ entry.checksums.image # "sha256:missing"
           /\ entry.checksums.labels # "sha256:missing"

\* the step is a call of add_category or add_page
BuilderCallStep ==
    /\ last_call'.op \in {"add_category", "add_page"}
    /\ <<pages, categories, last_call>>' # <<pages, categories, last_call>>

\* C30: after any sequence of add_category and add_page calls each page
\* entry's categoryId is the id of an entry in categories, categories
\* holds at most one entry per id, and build() reports pageCount equal to
\* the number of page entries; a call naming a category that is not in
\* CATEGORY_DEFINITIONS raises ValueError and leaves pages and categories
\* unchanged.
C30_BuilderStaysConsistent ==
    [][ /\ \A i \in DOMAIN pages' :
               /\ pages'[i].categoryId \in DOMAIN categories'
               /\ categories'[pages'[i].categoryId].id = pages'[i].categoryId
        /\ \A id \in DOMAIN categories' : categories'[id].id = id
        /\ manifest' # NoManifest =>
               /\ manifest'.pageCount = Len(pages')
               /\ manifest'.pages = pages'
               /\ Len(manifest'.categories) = Cardinality(DOMAIN categories')
               /\ \A i, j \in DOMAIN manifest'.categories :
                      manifest'.categories[i].id = manifest'.categories[j].id
                          => i = j
        /\ BuilderCallStep =>
               /\ last_call'.category_id \notin DOMAIN CATEGORY_DEFINITIONS
                      => last_call'.raised = "ValueError"
               /\ last_call'.raised = "ValueError"
                      => pages' = pages /\ categories' = categories ]_vars

\* add_page naming an undefined category has raised on a builder that holds
\* pages and categories
C30_Witness ==
    /\ last_call.op = "add_page"
    /\ last_call.raised = "ValueError"
    /\ pages # <<>>
    /\ Cardinality(DOMAIN categories) > 1

\* the pages of the manifest built of the output directory as it stands
ManifestPages == from_processed_directory(disk).pages

\* C29: after process_page rejects a page for QA (verdict FAIL,
\* skip_qa_fail=False), output_dir/page_id holds no metadata.json and a
\* manifest built afterwards by from_processed_directory does not list the
\* page; this holds for any sequence of runs, including reprocessing a
\* page_id that was processed successfully before.
C29_RejectedPageNotInManifest ==
    (Returned /\ ~call.skip_qa_fail /\ VerdictFail /\ call.fault = "none") =>
        /\ result.success = FALSE
        /\ disk[call.page_id].metadata = NoMetadata
        /\ \A i \in DOMAIN ManifestPages :
               ManifestPages[i].id # call.page_id

====
